---- MODULE Spec2Model ----
(***************************************************************************)
(* TCP-to-UDP log bridge (yxl20190811/tcp_udp_example).                    *)
(*                                                                         *)
(* Three programs are modelled, one per value of prog:                     *)
(*   "thread"   tcp_server.c with graceful shutdown: main, accept thread   *)
(*              and one detached client_thread per accepted connection;    *)
(*   "epoll"    epoll_server.c: one thread, edge-triggered event loop;     *)
(*   "send_all" send_all.c: the partial-write retry loop.                  *)
(* A byte of a TCP stream is the pair <<c, k>>: the k-th byte written by   *)
(* client c, so that the origin and position of every forwarded byte can   *)
(* be told.                                                                *)
(***************************************************************************)
EXTENDS Integers, Sequences, FiniteSets, TLC

\* ------------------------------------------------------------ bounds
MaxClients == 2      \* TCP clients that may connect
MaxBytes == 2        \* bytes each client may write to its connection
MaxLines == 1        \* console lines the operator may type
MaxConsoleLines == 2 \* the same, where the console is what is examined
MaxLen == 3          \* longest buffer handed to send_all
MaxLiveClients == 1  \* TCP clients that may connect where fairness is assumed
MaxDgrams == 2       \* datagrams that may arrive at the UDP log server
MaxDgramLen == 2     \* longest payload of such a datagram

\* --------------------------------------------------- program constants
BUFFER_SIZE == 4096  \* per-client receive buffer
INPUT_SIZE == 10     \* char input[10]
QUIT_CMP_LEN == 4    \* strncmp(input, "quit", 4)
MAX_EVENTS == 64     \* events[] of epoll_wait

Clients == 1..MaxClients
MainBuf == 0         \* the one handler frame of the single-threaded server
ListenFd == 0        \* listen_fd, as a member of the epoll set

Min(a, b) == IF a < b THEN a ELSE b

VARIABLES
    prog,           \* which program this behaviour runs
    running,        \* the shutdown flag
    stdin,          \* console lines typed and not yet read from descriptor 0
    stdio,          \* characters in the FILE buffer of stdin, not yet returned
    typed,          \* number of lines the operator has typed
    quitTyped,      \* ghost: the operator typed exactly the line quit
    badTyped,       \* ghost: the operator typed a line other than quit
    m_pc,           \* position of main
    a_pc,           \* position of accept_thread_func
    a_fd,           \* client_data->client_fd of the accept thread
    c_pc,           \* position of each client_thread
    backlog,        \* listen queue: connections completed and not accepted
    conn,           \* server side of each connection: none/queued/open/closed
    peer,           \* client side of each connection: up/fin/rst
    wr,             \* bytes the client has written to the connection
    rd,             \* bytes recv has consumed from the connection
    buffer,         \* receive buffers, one per handler frame
    n,              \* length of the chunk the last recv stored, per frame
    reads,          \* ghost: chunks recv returned, per connection
    fwd,            \* ghost: chunks passed to sendto, per connection
    sendFailed,     \* ghost: the last sendto failed and no recv has returned since
    listen_closes,  \* close(listen_fd) calls made
    udp_closes,     \* close(udp_socket) calls made
    lateAccepts,    \* ghost: connections accepted after running became 0
    lateSends,      \* ghost: sendto calls made after close(udp_socket)
    liveAtQuit,     \* ghost: connections that were open when quit was read
    lateFwd,        \* ghost: sendto calls per connection made with running = 0
    client_closes,  \* close() calls made on each accepted socket
    heap,           \* the per-connection context blocks: the one the accept
                    \* loop holds (a) and the one passed to each thread (c)
    registered,     \* descriptors in the epoll set
    ready,          \* registered descriptors with an undelivered edge
    events,         \* events[] of the last epoll_wait not yet handled
    h_fd,           \* client_fd of the running handle_client_data call
    epoll_closes,   \* close(epoll_fd) calls made
    sa,             \* the send_all call: arguments, locals, trace
    ul,             \* the UDP log server: socket, receive thread, log file
    su              \* main's startup: argv, the two sin_port values, what
                    \* the listening socket is bound to, the exit status

console == <<stdin, stdio, typed, quitTyped, badTyped>>
net == <<backlog, conn, peer, wr, rd>>
frames == <<buffer, n, reads, fwd, sendFailed>>
threads == <<m_pc, a_pc, a_fd, c_pc>>
fds == <<listen_closes, udp_closes>>
ghosts ==
    <<lateAccepts, lateSends, liveAtQuit, lateFwd, client_closes, heap>>
ep == <<registered, ready, events, h_fd, epoll_closes>>
vars ==
    <<prog, running, console, net, frames, threads, fds, ghosts, ep, sa, ul,
      su>>

\* ------------------------------------------------------------ console
NL == "\n"
QUIT == <<"q", "u", "i", "t">>

\* The lines the operator may type (without the newline).
Lines ==
    { QUIT,
      <<"q", "u", "i", "t", "x">>,
      <<"q", "u", "i">>,
      <<"x", "q", "u", "i", "t">>,
      <<"x", "x", "x", "x", "x", "x", "x", "x", "x", "q", "u", "i", "t">> }

\* Index of the first newline among the first k characters of s, or k.
RECURSIVE LineEnd(_, _, _)
LineEnd(s, i, k) ==
    IF i >= k THEN k
    ELSE IF s[i] = NL THEN i
    ELSE LineEnd(s, i + 1, k)

\* fgets(input, size, stdin): at most size-1 characters, through the first
\* newline.
Fgets(s, size) == SubSeq(s, 1, LineEnd(s, 1, Min(size - 1, Len(s))))

\* What fgets finds to take its characters from: the FILE buffer, or when
\* that is empty the next line of the console (a terminal hands one line to
\* each read).
FirstLine(s) == SubSeq(s, 1, LineEnd(s, 1, Len(s)))
Refilled == IF stdio /= <<>> THEN stdio ELSE FirstLine(stdin)
AfterRefill ==
    IF stdio /= <<>> THEN stdin
    ELSE SubSeq(stdin, Len(FirstLine(stdin)) + 1, Len(stdin))

\* The first k characters of the C string s, its terminating NUL included.
CPrefix(s, k) == SubSeq(s \o <<"NUL">>, 1, Min(k, Len(s) + 1))

\* strncmp(a, b, k) = 0
StrncmpEq(a, b, k) == CPrefix(a, k) = CPrefix(b, k)

IsQuitCommand(piece) == StrncmpEq(piece, QUIT, QUIT_CMP_LEN)

\* ------------------------------------------------------------ streams
\* The k-th byte client c writes.
Byte(c, k) == <<c, k>>

\* Bytes from+1 .. from+k of the stream of client c.
Chunk(c, from, k) == [i \in 1..k |-> Byte(c, from + i)]

\* recv into a buffer: the chunk overwrites the first bytes, the rest of the
\* buffer keeps what it held.
RecvInto(buf, chunk) ==
    chunk \o SubSeq(buf, Len(chunk) + 1, Len(buf))

\* The receive buffer of the client_thread of connection c: char buffer[] is a
\* local of the thread function, so each thread has its own.
BufferShared(c) == 1
BufferOf(c) == c

\* sendto(udp_socket, buffer, n, ...): the datagram handed to the socket.
DatagramShort(buf, k) == SubSeq(buf, 1, k - 1)
Datagram(buf, k) == SubSeq(buf, 1, k)

Alive == m_pc /= "exited"


\* ------------------------------------------------ operator and clients
\* The operator types a line and presses Enter (at most max lines in all).
Type(line, max) ==
    /\ Alive
    /\ typed < max
    /\ stdin' = stdin \o line \o <<NL>>
    /\ typed' = typed + 1
    /\ quitTyped' = (quitTyped \/ line = QUIT)
    /\ badTyped' = (badTyped \/ line /= QUIT)
    /\ UNCHANGED <<prog, su, ul, running, stdio, net, frames, threads, fds, ghosts, ep,
                   sa>>

\* An edge on descriptor fd: reported by the next epoll_wait if fd is in the
\* epoll set (EPOLLIN | EPOLLET).
Edge(fd) == IF fd \in registered THEN ready \cup {fd} ELSE ready

\* A client completes a connection to the listening socket.
Connect(c) ==
    /\ Alive
    /\ su.listening
    /\ listen_closes = 0
    /\ conn[c] = "none"
    /\ conn' = [conn EXCEPT ![c] = "queued"]
    /\ backlog' = Append(backlog, c)
    /\ ready' = Edge(ListenFd)
    /\ UNCHANGED <<prog, su, ul, running, console, peer, wr, rd, frames, threads, fds,
                   ghosts, registered, events, h_fd, epoll_closes, sa>>

\* A client writes its next byte.
ClientWrite(c) ==
    /\ Alive
    /\ conn[c] \in {"queued", "open"}
    /\ peer[c] = "up"
    /\ wr[c] < MaxBytes
    /\ wr' = [wr EXCEPT ![c] = @ + 1]
    /\ ready' = Edge(c)
    /\ UNCHANGED <<prog, su, ul, running, console, backlog, conn, peer, rd, frames,
                   threads, fds, ghosts, registered, events, h_fd,
                   epoll_closes, sa>>

\* A client closes its end (how = "fin") or resets the connection ("rst").
ClientEnd(c, how) ==
    /\ Alive
    /\ conn[c] \in {"queued", "open"}
    /\ peer[c] = "up"
    /\ peer' = [peer EXCEPT ![c] = how]
    /\ ready' = Edge(c)
    /\ UNCHANGED <<prog, su, ul, running, console, backlog, conn, wr, rd, frames,
                   threads, fds, ghosts, registered, events, h_fd,
                   epoll_closes, sa>>

\* A client that never stops sending: with MaxBytes bytes written and some
\* of them read, the count of its bytes starts afresh at the unread ones and
\* it writes one more (the record of what was read and forwarded before is
\* dropped with them).
ClientStream(c) ==
    /\ Alive
    /\ conn[c] = "open"
    /\ peer[c] = "up"
    /\ wr[c] = MaxBytes /\ rd[c] > 0
    /\ c_pc[c] /= "sendto" /\ ~(m_pc = "sendto" /\ h_fd = c)
    /\ wr' = [wr EXCEPT ![c] = wr[c] - rd[c] + 1]
    /\ rd' = [rd EXCEPT ![c] = 0]
    /\ reads' = [reads EXCEPT ![c] = <<>>]
    /\ fwd' = [fwd EXCEPT ![c] = <<>>]
    /\ ready' = Edge(c)
    /\ UNCHANGED <<prog, su, ul, running, console, backlog, conn, peer, buffer, n,
                   sendFailed, threads, fds, ghosts, registered, events, h_fd,
                   epoll_closes, sa>>
\* The life of one context block (client_thread_data_t in the server with
\* shutdown, int in the one without): "none" before malloc and once the
\* pointer is out of scope or handed over, "live" after malloc, "freed"
\* after free. malloc over a block still live loses it, free of a block not
\* live frees it again, a read of a block not live is a stale read.
NoHeap == [a |-> "none", c |-> [c \in Clients |-> "none"]]
CtxMalloc(st) == IF st = "live" THEN "leaked" ELSE "live"
CtxRead(st) == IF st = "live" THEN st ELSE "stale"
CtxFreeLeaks(st) == st
CtxFree(st) ==
    IF st = "live" THEN "freed"
    ELSE IF st = "stale" THEN "stale" ELSE "freed_twice"


\* ------------------------------------------- tcp_server.c: accept thread
\* The loop test of accept_thread_func, while (running): where it goes.
AcceptLoopForever(run) == "accept"
AcceptLoopTest(run) == IF run = 1 THEN "accept" ELSE "exit"

\* while (running) { setsockopt; malloc; ...
A_Test ==
    /\ prog = "thread" /\ Alive
    /\ a_pc = "test"
    /\ a_pc' = AcceptLoopTest(running)
    /\ heap' = [heap EXCEPT !.a = "none"]
    /\ UNCHANGED <<prog, su, ul, running, console, net, frames, m_pc, a_fd, c_pc, fds,
                   lateAccepts, lateSends, liveAtQuit, lateFwd,
                   client_closes, ep, sa>>

\* accept() returns the head of the listen queue.
A_AcceptConn ==
    /\ prog = "thread" /\ Alive
    /\ a_pc = "accept"
    /\ backlog /= <<>>
    /\ a_fd' = Head(backlog)
    /\ backlog' = Tail(backlog)
    /\ conn' = [conn EXCEPT ![Head(backlog)] = "open"]
    /\ a_pc' = "spawn"
    /\ heap' = [heap EXCEPT !.a = CtxMalloc(@)]
    /\ lateAccepts' = lateAccepts + (IF running = 0 THEN 1 ELSE 0)
    /\ UNCHANGED <<prog, su, ul, running, console, peer, wr, rd, frames, m_pc, c_pc,
                   fds, lateSends, liveAtQuit, lateFwd, client_closes, ep,
                   sa>>

\* accept() returns -1: the 1 s receive timeout on an empty queue
\* (EAGAIN/EWOULDBLOCK) or another error; both free client_data and continue.
A_AcceptFail(timeout) ==
    /\ prog = "thread" /\ Alive
    /\ a_pc = "accept"
    /\ timeout => backlog = <<>>
    /\ a_pc' = "test"
    /\ heap' = [heap EXCEPT !.a = CtxFree(CtxMalloc(@))]
    /\ UNCHANGED <<prog, su, ul, running, console, net, frames, m_pc, a_fd, c_pc, fds,
                   lateAccepts, lateSends, liveAtQuit, lateFwd,
                   client_closes, ep, sa>>

\* client_data = malloc(...) returns NULL: perror and continue, with no
\* accept call in this iteration.
A_MallocFail ==
    /\ prog = "thread" /\ Alive
    /\ a_pc = "accept"
    /\ a_pc' = "test"
    /\ UNCHANGED <<prog, su, ul, running, console, net, frames, m_pc, a_fd, c_pc, fds,
                   ghosts, ep, sa>>

\* What becomes of an accepted socket, in state st, whose set-up failed
\* (pthread_create, set_nonblocking or add_to_epoll): close(client_fd).
SetupFailureLeaks(st) == st
SetupFailure(st) == "closed"

\* pthread_create(client_thread): on failure close the socket and continue.
A_Spawn(ok) ==
    /\ prog = "thread" /\ Alive
    /\ a_pc = "spawn"
    /\ IF ok
       THEN /\ c_pc' = [c_pc EXCEPT ![a_fd] = "start"]
            /\ heap' = [heap EXCEPT !.a = "none", !.c[a_fd] = heap.a]
            /\ UNCHANGED <<conn, client_closes>>
       ELSE /\ conn' = [conn EXCEPT ![a_fd] = SetupFailure(@)]
            /\ client_closes' = [client_closes EXCEPT ![a_fd] = @ + 1]
            /\ c_pc' = c_pc
            /\ heap' = [heap EXCEPT !.a = CtxFree(CtxRead(@))]
    /\ a_pc' = "test"
    /\ a_fd' = 0
    /\ UNCHANGED <<prog, su, ul, running, console, backlog, peer, wr, rd, frames, m_pc,
                   fds, lateAccepts, lateSends, liveAtQuit, lateFwd, ep, sa>>

\* ------------------------------------------ tcp_server.c: client_thread
\* client_fd = data->client_fd; free(data); setsockopt(SO_RCVTIMEO)
C_Start(c) ==
    /\ prog = "thread" /\ Alive
    /\ c_pc[c] = "start"
    /\ c_pc' = [c_pc EXCEPT ![c] = "test"]
    /\ heap' = [heap EXCEPT !.c[c] = CtxFree(CtxRead(@))]
    /\ UNCHANGED <<prog, su, ul, running, console, net, frames, m_pc, a_pc, a_fd, fds,
                   lateAccepts, lateSends, liveAtQuit, lateFwd,
                   client_closes, ep, sa>>

\* The loop test of client_thread, while (running): where it goes.
ClientLoopForever(run) == "recv"
ClientLoopTest(run) == IF run = 1 THEN "recv" ELSE "close"

\* while (running)
C_Test(c) ==
    /\ prog = "thread" /\ Alive
    /\ c_pc[c] = "test"
    /\ c_pc' = [c_pc EXCEPT ![c] = ClientLoopTest(running)]
    /\ UNCHANGED <<prog, su, ul, running, console, net, frames, m_pc, a_pc, a_fd, fds,
                   ghosts, ep, sa>>

\* n = recv(client_fd, buffer, sizeof(buffer), 0) returns k > 0 bytes.
C_RecvData(c, k) ==
    /\ prog = "thread" /\ Alive
    /\ c_pc[c] = "recv"
    /\ peer[c] /= "rst"
    /\ k \in 1..Min(wr[c] - rd[c], BUFFER_SIZE)
    /\ LET chunk == Chunk(c, rd[c], k) IN
         /\ buffer' = [buffer EXCEPT ![BufferOf(c)] = RecvInto(@, chunk)]
         /\ reads' = [reads EXCEPT ![c] = Append(@, chunk)]
    /\ n' = [n EXCEPT ![BufferOf(c)] = k]
    /\ rd' = [rd EXCEPT ![c] = @ + k]
    /\ c_pc' = [c_pc EXCEPT ![c] = "sendto"]
    /\ sendFailed' = [sendFailed EXCEPT ![c] = FALSE]
    /\ UNCHANGED <<prog, su, ul, running, console, backlog, conn, peer, wr, fwd, m_pc,
                   a_pc, a_fd, fds, ghosts, ep, sa>>

\* Where client_thread goes when recv returned no data, by the state p of
\* the peer: continue after a timeout (the peer is up and has sent nothing
\* more), break after end of stream or another error.
AfterRecvNoneBreaks(p) == "close"
AfterRecvNone(p) == IF p = "up" THEN "test" ELSE "close"

\* recv returns 0 (end of stream), -1 with EAGAIN (timeout) or -1 with
\* another error (connection reset).
C_RecvNone(c) ==
    /\ prog = "thread" /\ Alive
    /\ c_pc[c] = "recv"
    /\ peer[c] = "rst" \/ wr[c] = rd[c]
    /\ c_pc' = [c_pc EXCEPT ![c] = AfterRecvNone(peer[c])]
    /\ sendFailed' = [sendFailed EXCEPT ![c] = FALSE]
    /\ UNCHANGED <<prog, su, ul, running, console, net, buffer, n, reads, fwd, m_pc,
                   a_pc, a_fd, fds, ghosts, ep, sa>>

\* Where client_thread goes after sendto returned (ok: it did not fail):
\* a failure is reported with perror and the loop continues.
AfterSendtoBreaks(ok) == IF ok THEN "test" ELSE "close"
AfterSendtoReads(ok) == "recv"
AfterSendto(ok) == "test"

\* sendto(udp_socket, buffer, n, 0, &udp_addr, ...)
C_Sendto(c, ok) ==
    /\ prog = "thread" /\ Alive
    /\ c_pc[c] = "sendto"
    /\ udp_closes > 0 => ~ok
    /\ fwd' = [fwd EXCEPT ![c] =
                  Append(@, Datagram(buffer[BufferOf(c)], n[BufferOf(c)]))]
    /\ sendFailed' = [sendFailed EXCEPT ![c] = ~ok]
    /\ lateSends' = lateSends + (IF udp_closes > 0 THEN 1 ELSE 0)
    /\ lateFwd' = [lateFwd EXCEPT ![c] = @ + (IF running = 0 THEN 1 ELSE 0)]
    /\ c_pc' = [c_pc EXCEPT ![c] = AfterSendto(ok)]
    /\ UNCHANGED <<prog, su, ul, running, console, net, buffer, n, reads, m_pc, a_pc,
                   a_fd, fds, lateAccepts, liveAtQuit, client_closes, heap,
                   ep, sa>>

\* close(client_fd); return NULL: the thread ends and its frame is gone.
C_Close(c) ==
    /\ prog = "thread" /\ Alive
    /\ c_pc[c] = "close"
    /\ conn' = [conn EXCEPT ![c] = "closed"]
    /\ c_pc' = [c_pc EXCEPT ![c] = "done"]
    /\ buffer' = [buffer EXCEPT ![BufferOf(c)] = <<>>]
    /\ n' = [n EXCEPT ![BufferOf(c)] = 0]
    /\ sendFailed' = [sendFailed EXCEPT ![c] = FALSE]
    /\ client_closes' = [client_closes EXCEPT ![c] = @ + 1]
    /\ UNCHANGED <<prog, su, ul, running, console, backlog, peer, wr, rd, reads, fwd,
                   m_pc, a_pc, a_fd, fds, lateAccepts, lateSends, liveAtQuit,
                   lateFwd, heap, ep, sa>>

\* ------------------------------- tcp_server.c without shutdown: main
\* int* client_fd = malloc(sizeof(int)): on NULL perror and continue.
SimpleMalloc(ok) ==
    /\ prog = "simple"
    /\ a_pc = "malloc"
    /\ a_pc' = IF ok THEN "accept" ELSE "malloc"
    /\ heap' = [heap EXCEPT !.a = IF ok THEN CtxMalloc("none") ELSE "none"]
    /\ UNCHANGED <<prog, su, ul, running, console, net, frames, m_pc, a_fd, c_pc, fds,
                   lateAccepts, lateSends, liveAtQuit, lateFwd,
                   client_closes, ep, sa>>

\* *client_fd = accept(listen_fd, ...) returns the head of the listen queue
\* (the call blocks while the queue is empty).
SimpleAcceptConn ==
    /\ prog = "simple"
    /\ a_pc = "accept"
    /\ backlog /= <<>>
    /\ a_fd' = Head(backlog)
    /\ backlog' = Tail(backlog)
    /\ conn' = [conn EXCEPT ![Head(backlog)] = "open"]
    /\ a_pc' = "spawn"
    /\ UNCHANGED <<prog, su, ul, running, console, peer, wr, rd, frames, m_pc, c_pc,
                   fds, ghosts, ep, sa>>

\* accept() returns -1: perror, free(client_fd), continue.
SimpleAcceptFail ==
    /\ prog = "simple"
    /\ a_pc = "accept"
    /\ a_pc' = "malloc"
    /\ heap' = [heap EXCEPT !.a = CtxFree(@)]
    /\ UNCHANGED <<prog, su, ul, running, console, net, frames, m_pc, a_fd, c_pc, fds,
                   lateAccepts, lateSends, liveAtQuit, lateFwd,
                   client_closes, ep, sa>>

\* pthread_create(&tid, NULL, client_thread, client_fd): on failure
\* close(*client_fd), free, continue; on success pthread_detach(tid).
SimpleSpawn(ok) ==
    /\ prog = "simple"
    /\ a_pc = "spawn"
    /\ IF ok
       THEN /\ c_pc' = [c_pc EXCEPT ![a_fd] = "start"]
            /\ heap' = [heap EXCEPT !.a = "none", !.c[a_fd] = heap.a]
            /\ UNCHANGED <<conn, client_closes>>
       ELSE /\ conn' = [conn EXCEPT ![a_fd] = SetupFailure(@)]
            /\ client_closes' = [client_closes EXCEPT ![a_fd] = @ + 1]
            /\ c_pc' = c_pc
            /\ heap' = [heap EXCEPT !.a = CtxFree(CtxRead(@))]
    /\ a_pc' = "malloc"
    /\ a_fd' = 0
    /\ UNCHANGED <<prog, su, ul, running, console, backlog, peer, wr, rd, frames, m_pc,
                   fds, lateAccepts, lateSends, liveAtQuit, lateFwd, ep, sa>>

\* int client_fd = *(int*)arg; free(arg): the thread's first statements.
SimpleStart(c) ==
    /\ prog = "simple"
    /\ c_pc[c] = "start"
    /\ c_pc' = [c_pc EXCEPT ![c] = "recv"]
    /\ heap' = [heap EXCEPT !.c[c] = CtxFree(CtxRead(@))]
    /\ UNCHANGED <<prog, su, ul, running, console, net, frames, m_pc, a_pc, a_fd, fds,
                   lateAccepts, lateSends, liveAtQuit, lateFwd,
                   client_closes, ep, sa>>

\* ---------------------- tcp_server.c without shutdown: client_thread
\* while (1) { n = recv(client_fd, buffer, sizeof(buffer), 0) returns k > 0
SimpleRecvData(c, k) ==
    /\ prog = "simple"
    /\ c_pc[c] = "recv"
    /\ peer[c] /= "rst"
    /\ k \in 1..Min(wr[c] - rd[c], BUFFER_SIZE)
    /\ LET chunk == Chunk(c, rd[c], k) IN
         /\ buffer' = [buffer EXCEPT ![BufferOf(c)] = RecvInto(@, chunk)]
         /\ reads' = [reads EXCEPT ![c] = Append(@, chunk)]
    /\ n' = [n EXCEPT ![BufferOf(c)] = k]
    /\ rd' = [rd EXCEPT ![c] = @ + k]
    /\ c_pc' = [c_pc EXCEPT ![c] = "sendto"]
    /\ UNCHANGED <<prog, su, ul, running, console, backlog, conn, peer, wr, fwd,
                   sendFailed, m_pc, a_pc, a_fd, fds, ghosts, ep, sa>>

\* recv returns 0 (end of stream) or -1 (connection reset): if (n <= 0)
\* break. The socket has no receive timeout: recv blocks while the peer is
\* up and has sent nothing more.
SimpleRecvNone(c) ==
    /\ prog = "simple"
    /\ c_pc[c] = "recv"
    /\ peer[c] = "rst" \/ (peer[c] = "fin" /\ wr[c] = rd[c])
    /\ c_pc' = [c_pc EXCEPT ![c] = "close"]
    /\ UNCHANGED <<prog, su, ul, running, console, net, frames, m_pc, a_pc, a_fd, fds,
                   ghosts, ep, sa>>

\* sendto(udp_socket, buffer, n, 0, &udp_addr, ...); a failure is reported
\* with perror and the loop continues.
SimpleSendto(c, ok) ==
    /\ prog = "simple"
    /\ c_pc[c] = "sendto"
    /\ fwd' = [fwd EXCEPT ![c] =
                  Append(@, Datagram(buffer[BufferOf(c)], n[BufferOf(c)]))]
    /\ sendFailed' = [sendFailed EXCEPT ![c] = ~ok]
    /\ c_pc' = [c_pc EXCEPT ![c] = "recv"]
    /\ UNCHANGED <<prog, su, ul, running, console, net, buffer, n, reads, m_pc, a_pc,
                   a_fd, fds, ghosts, ep, sa>>

\* close(client_fd); return NULL;
SimpleClose(c) ==
    /\ prog = "simple"
    /\ c_pc[c] = "close"
    /\ conn' = [conn EXCEPT ![c] = "closed"]
    /\ client_closes' = [client_closes EXCEPT ![c] = @ + 1]
    /\ c_pc' = [c_pc EXCEPT ![c] = "done"]
    /\ buffer' = [buffer EXCEPT ![BufferOf(c)] = <<>>]
    /\ n' = [n EXCEPT ![BufferOf(c)] = 0]
    /\ sendFailed' = [sendFailed EXCEPT ![c] = FALSE]
    /\ UNCHANGED <<prog, su, ul, running, console, backlog, peer, wr, rd, reads, fwd,
                   m_pc, a_pc, a_fd, fds, lateAccepts, lateSends, liveAtQuit,
                   lateFwd, heap, ep, sa>>


\* ------------------------------------------------- tcp_server.c: main
\* What the quit branch does to the listening socket: nothing, the socket is
\* closed by the cleanup code after the accept thread has been joined.
ListenClosesAtQuitEarly(k) == k + 1
ListenClosesAtQuit(k) == k

\* while (running)
M_Loop ==
    /\ prog = "thread"
    /\ m_pc = "loop"
    /\ m_pc' = IF running = 1 THEN "fgets" ELSE "join"
    /\ UNCHANGED <<prog, su, ul, running, console, net, frames, a_pc, a_fd, c_pc, fds,
                   ghosts, ep, sa>>

\* if (fgets(input, sizeof(input), stdin))
\*     if (strncmp(input, "quit", 4) == 0) { running = 0; break; }
M_Fgets ==
    /\ prog = "thread"
    /\ m_pc = "fgets"
    /\ stdio /= <<>> \/ stdin /= <<>>
    /\ LET piece == Fgets(Refilled, INPUT_SIZE) IN
         /\ stdin' = AfterRefill
         /\ stdio' = SubSeq(Refilled, Len(piece) + 1, Len(Refilled))
         /\ IF IsQuitCommand(piece)
            THEN /\ running' = 0
                 /\ listen_closes' = ListenClosesAtQuit(listen_closes)
                 /\ liveAtQuit' = {c \in Clients : conn[c] = "open"}
                 /\ m_pc' = "join"
            ELSE /\ running' = running
                 /\ listen_closes' = listen_closes
                 /\ liveAtQuit' = liveAtQuit
                 /\ m_pc' = "loop"
    /\ UNCHANGED <<prog, su, ul, typed, quitTyped, badTyped, net, frames, a_pc, a_fd,
                   c_pc, udp_closes, lateAccepts, lateSends, lateFwd,
                   client_closes, heap, ep,
                   sa>>

\* pthread_join(accept_thread, NULL) returns once the accept thread, at
\* apc, has returned.
JoinReturnsAtOnce(apc) == TRUE
JoinWaitsForHandlers(apc) ==
    apc = "exit" /\ \A c \in Clients : conn[c] /= "open"
JoinReturns(apc) == apc = "exit"

\* pthread_join(accept_thread, NULL)
M_Join ==
    /\ prog = "thread"
    /\ m_pc = "join"
    /\ JoinReturns(a_pc)
    /\ m_pc' = "close_listen"
    /\ UNCHANGED <<prog, su, ul, running, console, net, frames, a_pc, a_fd, c_pc, fds,
                   ghosts, ep, sa>>

\* if (listen_fd >= 0) close(listen_fd);
M_CloseListen ==
    /\ prog = "thread"
    /\ m_pc = "close_listen"
    /\ listen_closes' = listen_closes + 1
    /\ m_pc' = "close_udp"
    /\ UNCHANGED <<prog, su, ul, running, console, net, frames, a_pc, a_fd, c_pc,
                   udp_closes, ghosts, ep, sa>>

\* close(udp_socket);
M_CloseUdp ==
    /\ prog = "thread"
    /\ m_pc = "close_udp"
    /\ udp_closes' = udp_closes + 1
    /\ m_pc' = "return"
    /\ UNCHANGED <<prog, su, ul, running, console, net, frames, a_pc, a_fd, c_pc,
                   listen_closes, ghosts, ep, sa>>

\* return 0: the process ends and takes its detached threads with it.
M_Return ==
    /\ prog = "thread"
    /\ m_pc = "return"
    /\ m_pc' = "exited"
    /\ su' = [su EXCEPT !.status = 0]
    /\ UNCHANGED <<prog, ul, running, console, net, frames, a_pc, a_fd, c_pc, fds,
                   ghosts, ep, sa>>


\* --------------------------------------------------- epoll_server.c: main
\* while (running)
E_Loop ==
    /\ prog = "epoll"
    /\ m_pc = "loop"
    /\ m_pc' = IF running = 1 THEN "stdin" ELSE "cleanup"
    /\ UNCHANGED <<prog, su, ul, running, console, net, frames, a_pc, a_fd, c_pc, fds,
                   ghosts, ep, sa>>

\* select() on descriptor 0 with a zero timeout (it does not see the FILE
\* buffer); if a line is there, fgets and strncmp as in tcp_server.c.
E_Stdin ==
    /\ prog = "epoll"
    /\ m_pc = "stdin"
    /\ IF stdin = <<>>
       THEN /\ m_pc' = "wait"
            /\ UNCHANGED <<running, stdin, stdio, liveAtQuit>>
       ELSE LET piece == Fgets(Refilled, INPUT_SIZE) IN
            /\ stdin' = AfterRefill
            /\ stdio' = SubSeq(Refilled, Len(piece) + 1, Len(Refilled))
            /\ running' = IF IsQuitCommand(piece) THEN 0 ELSE running
            /\ liveAtQuit' = IF IsQuitCommand(piece)
                             THEN {c \in Clients : conn[c] = "open"}
                             ELSE liveAtQuit
            /\ m_pc' = IF IsQuitCommand(piece) THEN "cleanup" ELSE "wait"
    /\ UNCHANGED <<prog, su, ul, typed, quitTyped, badTyped, net, frames, a_pc, a_fd,
                   c_pc, fds, lateAccepts, lateSends, lateFwd, client_closes, heap,
                   ep, sa>>

\* nfds = epoll_wait(epoll_fd, events, MAX_EVENTS, 100): the pending edges
\* (none after the 100 ms timeout), or -1 with EINTR or another error.
E_Wait(outcome) ==
    /\ prog = "epoll"
    /\ m_pc = "wait"
    /\ CASE outcome = "events" ->
              \E got \in SUBSET ready :
                 /\ Cardinality(got) = Min(Cardinality(ready), MAX_EVENTS)
                 /\ events' = got
                 /\ ready' = ready \ got
                 /\ m_pc' = "events"
         [] outcome = "eintr" ->
              /\ m_pc' = "loop"
              /\ UNCHANGED <<events, ready>>
         [] outcome = "error" ->
              /\ m_pc' = "cleanup"
              /\ UNCHANGED <<events, ready>>
    /\ UNCHANGED <<prog, su, ul, running, console, net, frames, a_pc, a_fd, c_pc, fds,
                   ghosts, registered, h_fd, epoll_closes, sa>>

\* for (i < nfds) with events[i].data.fd == listen_fd: one accept(), then
\* set_nonblocking and add_to_epoll; the socket is closed if either fails.
E_Accept(outcome) ==
    /\ prog = "epoll"
    /\ m_pc = "events"
    /\ ListenFd \in events
    /\ events' = events \ {ListenFd}
    /\ IF backlog = <<>> \/ outcome = "accept_fail"
       THEN UNCHANGED <<backlog, conn, registered, ready, client_closes>>
       ELSE LET c == Head(backlog) IN
            /\ backlog' = Tail(backlog)
            /\ IF outcome = "ok"
               THEN /\ conn' = [conn EXCEPT ![c] = "open"]
                    /\ registered' = registered \cup {c}
                    /\ ready' = IF wr[c] > rd[c] \/ peer[c] /= "up"
                                THEN ready \cup {c} ELSE ready
                    /\ client_closes' = client_closes
               ELSE /\ conn' = [conn EXCEPT ![c] = SetupFailure("open")]
                    /\ client_closes' = [client_closes EXCEPT ![c] = @ + 1]
                    /\ UNCHANGED <<registered, ready>>
    /\ UNCHANGED <<prog, su, ul, running, console, peer, wr, rd, frames, threads, fds,
                   lateAccepts, lateSends, liveAtQuit, lateFwd, heap, h_fd,
                   epoll_closes, sa>>

\* for (i < nfds) with a client descriptor: call handle_client_data.
E_Client(c) ==
    /\ prog = "epoll"
    /\ m_pc = "events"
    /\ c \in events
    /\ c /= ListenFd
    /\ events' = events \ {c}
    /\ h_fd' = c
    /\ m_pc' = "recv"
    /\ UNCHANGED <<prog, su, ul, running, console, net, frames, a_pc, a_fd, c_pc, fds,
                   ghosts, registered, ready, epoll_closes, sa>>

\* The for loop over events[] is over.
E_EventsDone ==
    /\ prog = "epoll"
    /\ m_pc = "events"
    /\ events = {}
    /\ m_pc' = "loop"
    /\ UNCHANGED <<prog, su, ul, running, console, net, frames, a_pc, a_fd, c_pc, fds,
                   ghosts, ep, sa>>

\* handle_client_data: bytes_read = recv(...) returns k > 0 bytes.
E_RecvData(k) ==
    /\ prog = "epoll"
    /\ m_pc = "recv"
    /\ peer[h_fd] /= "rst"
    /\ k \in 1..Min(wr[h_fd] - rd[h_fd], BUFFER_SIZE)
    /\ LET chunk == Chunk(h_fd, rd[h_fd], k) IN
         /\ buffer' = [buffer EXCEPT ![MainBuf] = RecvInto(@, chunk)]
         /\ reads' = [reads EXCEPT ![h_fd] = Append(@, chunk)]
    /\ n' = [n EXCEPT ![MainBuf] = k]
    /\ rd' = [rd EXCEPT ![h_fd] = @ + k]
    /\ m_pc' = "sendto"
    /\ sendFailed' = [sendFailed EXCEPT ![h_fd] = FALSE]
    /\ UNCHANGED <<prog, su, ul, running, console, backlog, conn, peer, wr, fwd, a_pc,
                   a_fd, c_pc, fds, ghosts, ep, sa>>

\* remove_from_epoll(fd): epoll_ctl(epoll_fd, EPOLL_CTL_DEL, fd, NULL) on a
\* set of descriptors.
RemoveAllFromEpoll(set, fd) == set \cap {ListenFd}
RemoveNoneFromEpoll(set, fd) == set
RemoveFromEpoll(set, fd) == set \ {fd}

\* handle_client_data: recv returns -1 with EAGAIN (break, return 0, and
\* main goes on with the next event), or 0 or another error (return -1, and
\* main goes on to remove the socket from the epoll set).
E_RecvNone ==
    /\ prog = "epoll"
    /\ m_pc = "recv"
    /\ peer[h_fd] = "rst" \/ wr[h_fd] = rd[h_fd]
    /\ IF peer[h_fd] = "up"
       THEN /\ m_pc' = "events"
            /\ h_fd' = 0
       ELSE /\ m_pc' = "remove"
            /\ h_fd' = h_fd
    /\ sendFailed' = [sendFailed EXCEPT ![h_fd] = FALSE]
    /\ UNCHANGED <<prog, su, ul, running, console, net, buffer, n, reads, fwd, a_pc,
                   a_fd, c_pc, fds, ghosts, registered, ready, events,
                   epoll_closes, sa>>

\* main, after handle_client_data returned -1: remove_from_epoll(client_fd)
E_Remove ==
    /\ prog = "epoll"
    /\ m_pc = "remove"
    /\ registered' = RemoveFromEpoll(registered, h_fd)
    /\ ready' = RemoveFromEpoll(ready, h_fd)
    /\ m_pc' = "close_client"
    /\ UNCHANGED <<prog, su, ul, running, console, net, frames, a_pc, a_fd, c_pc, fds,
                   ghosts, events, h_fd, epoll_closes, sa>>

\* main, after remove_from_epoll: close(client_fd), then the next event.
E_CloseClient ==
    /\ prog = "epoll"
    /\ m_pc = "close_client"
    /\ conn' = [conn EXCEPT ![h_fd] = "closed"]
    /\ client_closes' = [client_closes EXCEPT ![h_fd] = @ + 1]
    /\ m_pc' = "events"
    /\ h_fd' = 0
    /\ UNCHANGED <<prog, su, ul, running, console, backlog, peer, wr, rd, frames,
                   a_pc, a_fd, c_pc, fds, lateAccepts, lateSends, liveAtQuit,
                   lateFwd, heap, registered, ready, events, epoll_closes, sa>>

\* Where handle_client_data goes after sendto returned (ok: it did not
\* fail): to the next recv of its while (1) loop.
AfterEpollSendtoReturns(ok) == "events"
AfterEpollSendto(ok) == "recv"

\* handle_client_data: sendto(udp_socket, buffer, bytes_read, ...); a failure
\* is reported and the loop continues.
E_Sendto(ok) ==
    /\ prog = "epoll"
    /\ m_pc = "sendto"
    /\ fwd' = [fwd EXCEPT ![h_fd] =
                  Append(@, Datagram(buffer[MainBuf], n[MainBuf]))]
    /\ sendFailed' = [sendFailed EXCEPT ![h_fd] = ~ok]
    /\ m_pc' = AfterEpollSendto(ok)
    /\ UNCHANGED <<prog, su, ul, running, console, net, buffer, n, reads, a_pc, a_fd,
                   c_pc, fds, ghosts, ep, sa>>

\* close(listen_fd); close(udp_socket); close(epoll_fd); return 0;
E_Cleanup ==
    /\ prog = "epoll"
    /\ m_pc = "cleanup"
    /\ listen_closes' = listen_closes + 1
    /\ udp_closes' = udp_closes + 1
    /\ epoll_closes' = epoll_closes + 1
    /\ m_pc' = "exited"
    /\ su' = [su EXCEPT !.status = 0]
    /\ UNCHANGED <<prog, ul, running, console, net, frames, a_pc, a_fd, c_pc,
                   ghosts, registered, ready, events, h_fd, sa>>


\* ------------------------------------------------------------ send_all.c
SaBytes == {0, 1}

\* The buffers a caller may pass: a sequence of bytes, of any length up to
\* MaxLen.
SaBuffers == UNION {[1..k -> SaBytes] : k \in 0..MaxLen}

\* The two checks at the head of send_all.
ValidateLenOnly(isnull, len) ==
    IF len = 0 THEN "empty" ELSE "loop"
ValidateNullFirst(isnull, len) ==
    IF isnull THEN "invalid"
    ELSE IF len = 0 THEN "empty"
    ELSE "loop"
Validate(isnull, len) ==
    IF isnull /\ len /= 0 THEN "invalid"
    ELSE IF len = 0 THEN "empty"
    ELSE "loop"

\* send(sockfd, ptr + sent, len - sent, 0): where the attempt starts in the
\* buffer and how many bytes it asks for.
AttemptFromStart(len, sent) == [off |-> 0, cnt |-> len - sent]
Attempt(len, sent) == [off |-> sent, cnt |-> len - sent]

\* if (n <= 0) { perror(...); return -1; }  sent += n;  and back to the loop
\* test: where send_all goes after send returned res.
AfterSendRetries(res) == "loop"
AfterSend(res) == IF res > 0 THEN "loop" ELSE "done"

\* sent += (unsigned)n, for n > 0 (n is at most len - sent, so the unsigned
\* sum does not wrap).
AdvanceStalls(sent, res) == sent
Advance(sent, res) == sent + res

\* if (NULL == buf && len != 0) return -1;  if (len == 0) return 0;
SA_Validate ==
    /\ prog = "send_all"
    /\ sa.pc = "entry"
    /\ LET v == Validate(sa.isnull, sa.len) IN
         sa' = [sa EXCEPT !.pc = IF v = "loop" THEN "loop" ELSE "done",
                          !.ret = IF v = "invalid" THEN -1 ELSE 0]
    /\ UNCHANGED <<prog, su, ul, running, console, net, frames, threads, fds, ghosts,
                   ep>>

\* while (sent < len) { n = send(...); if (n <= 0) return -1; sent += n; }
\* One iteration; res is what send returns: -1, 0, or the number of bytes
\* the transport took, at most the number asked for (so that sent never
\* exceeds len and the unsigned sum does not wrap).
SA_Send(res) ==
    /\ prog = "send_all"
    /\ sa.pc = "loop"
    /\ sa.sent < sa.len
    /\ LET a == Attempt(sa.len, sa.sent) IN
         /\ res <= a.cnt
         /\ sa.fd < 0 => res = -1
         /\ sa' = [sa EXCEPT
                !.calls = Append(@, [off |-> a.off, cnt |-> a.cnt,
                                     res |-> res]),
                !.wire = IF res > 0
                         THEN @ \o SubSeq(sa.buf, a.off + 1, a.off + res)
                         ELSE @,
                !.sent = IF res > 0 THEN Advance(@, res) ELSE @,
                !.pc = AfterSend(res),
                !.ret = IF res > 0 THEN @ ELSE -1]
    /\ UNCHANGED <<prog, su, ul, running, console, net, frames, threads, fds, ghosts,
                   ep>>

\* The loop test fails: return 0.
SA_Return ==
    /\ prog = "send_all"
    /\ sa.pc = "loop"
    /\ ~(sa.sent < sa.len)
    /\ sa' = [sa EXCEPT !.pc = "done", !.ret = 0]
    /\ UNCHANGED <<prog, su, ul, running, console, net, frames, threads, fds, ghosts,
                   ep>>

\* The caller of test_client.c: close(sock_fd) once send_all has returned,
\* whether it returned 0 or -1.
TC_Close ==
    /\ prog = "send_all"
    /\ sa.pc = "done"
    /\ sa.fd >= 0
    /\ sa' = [sa EXCEPT !.pc = "closed", !.closes = @ + 1]
    /\ UNCHANGED <<prog, su, ul, running, console, net, frames, threads, fds, ghosts,
                   ep>>

\* ------------------------------------------------------- main: startup
\* The port arguments tried, as the characters of argv[1] and argv[3].
PortArgs ==
    { <<"0">>, <<"1">>, <<"6", "5", "5", "3", "5">>,
      <<"6", "5", "5", "3", "6">>, <<"6", "5", "5", "3", "7">>,
      <<"-", "1">>, <<"a", "b", "c">> }

Digits == <<"0", "1", "2", "3", "4", "5", "6", "7", "8", "9">>
IsDigit(ch) == \E i \in 1..10 : Digits[i] = ch
DigitVal(ch) == (CHOOSE i \in 1..10 : Digits[i] = ch) - 1

\* The value of the digits at the head of s, after the digits read so far
\* gave acc.
RECURSIVE AtoiDigits(_, _)
AtoiDigits(s, acc) ==
    IF s = <<>> \/ ~IsDigit(Head(s)) THEN acc
    ELSE AtoiDigits(Tail(s), 10 * acc + DigitVal(Head(s)))

\* atoi(s): an optional sign, then decimal digits up to the first character
\* that is none; 0 if there is no digit. (The arguments tried stay far inside
\* the range of int.)
Atoi(s) ==
    IF s /= <<>> /\ Head(s) = "-" THEN 0 - AtoiDigits(Tail(s), 0)
    ELSE IF s /= <<>> /\ Head(s) = "+" THEN AtoiDigits(Tail(s), 0)
    ELSE AtoiDigits(s, 0)

\* The conversion of an int to the uint16_t parameter of htons.
ToUint16(v) == v % 65536

\* htons and ntohs on a little-endian host: the two bytes change places.
Htons(h) == (h % 256) * 256 + (h \div 256)
Ntohs(x) == (x % 256) * 256 + (x \div 256)

\* sin_port = htons(atoi(arg))
SinPort(arg) == Htons(ToUint16(Atoi(arg)))

\* The command lines tried: argc, and when argc is 4 the three arguments (the
\* host stands for what inet_pton makes of argv[2]).
CommandLines ==
    [argc : {4}, tcp : PortArgs, host : {"valid", "invalid"}, udp : PortArgs]
    \cup [argc : {3}, tcp : {<<"1">>}, host : {"valid"}, udp : {<<>>}]

\* The startup record of a server that has not started yet.
NotStarted(line) ==
    [argv |-> line, tcp_port |-> 0, udp_port |-> 0, bound |-> 0,
     listening |-> FALSE, status |-> -1, opened |-> {}]

\* The startup record of a server started as: server 1 <valid host> 1.
Started ==
    [argv |-> [argc |-> 4, tcp |-> <<"1">>, host |-> "valid",
               udp |-> <<"1">>],
     tcp_port |-> SinPort(<<"1">>), udp_port |-> SinPort(<<"1">>),
     bound |-> 1, listening |-> TRUE, status |-> -1,
     opened |-> {"udp", "listen"}]

\* return 1 from the startup code, after closing the descriptors opened so
\* far: the UDP socket (u), the epoll descriptor (e), the TCP socket (l).
S_Fail(u, e, l) ==
    /\ m_pc' = "exited"
    /\ su' = [su EXCEPT !.status = 1]
    /\ udp_closes' = udp_closes + (IF u THEN 1 ELSE 0)
    /\ epoll_closes' = epoll_closes + (IF e /\ prog = "epoll" THEN 1 ELSE 0)
    /\ listen_closes' = listen_closes + (IF l THEN 1 ELSE 0)

\* The startup code moves on to step next.
S_Go(next) ==
    /\ m_pc' = next
    /\ UNCHANGED <<su, udp_closes, epoll_closes, listen_closes>>

\* A call that opens descriptor r has succeeded: the startup code moves on
\* to step next with r open.
S_Open(next, r) ==
    /\ m_pc' = next
    /\ su' = [su EXCEPT !.opened = @ \cup {r}]
    /\ UNCHANGED <<udp_closes, epoll_closes, listen_closes>>

\* if (argc != 4) { usage; return 1; }
S_Argc ==
    /\ prog \in {"thread", "epoll"}
    /\ m_pc = "argc"
    /\ IF su.argv.argc /= 4 THEN S_Fail(FALSE, FALSE, FALSE)
       ELSE S_Go("udp_socket")
    /\ UNCHANGED <<prog, ul, running, console, net, frames, a_pc, a_fd, c_pc,
                   ghosts, registered, ready, events, h_fd, sa>>

\* udp_socket = socket(AF_INET, SOCK_DGRAM, 0)
S_UdpSocket(ok) ==
    /\ prog \in {"thread", "epoll"}
    /\ m_pc = "udp_socket"
    /\ IF ok THEN S_Open("udp_addr", "udp") ELSE S_Fail(FALSE, FALSE, FALSE)
    /\ UNCHANGED <<prog, ul, running, console, net, frames, a_pc, a_fd, c_pc,
                   ghosts, registered, ready, events, h_fd, sa>>

\* udp_addr.sin_port = htons(atoi(argv[3])); inet_pton(argv[2]) or return 1.
S_UdpAddr ==
    /\ prog \in {"thread", "epoll"}
    /\ m_pc = "udp_addr"
    /\ LET port == SinPort(su.argv.udp) IN
         IF su.argv.host /= "valid"
         THEN /\ m_pc' = "exited"
              /\ su' = [su EXCEPT !.udp_port = port, !.status = 1]
              /\ udp_closes' = udp_closes + 1
              /\ UNCHANGED <<epoll_closes, listen_closes>>
         ELSE /\ m_pc' = IF prog = "epoll" THEN "epoll_create"
                         ELSE "tcp_socket"
              /\ su' = [su EXCEPT !.udp_port = port]
              /\ UNCHANGED <<udp_closes, epoll_closes, listen_closes>>
    /\ UNCHANGED <<prog, ul, running, console, net, frames, a_pc, a_fd, c_pc,
                   ghosts, registered, ready, events, h_fd, sa>>

\* epoll_server.c: epoll_fd = epoll_create1(0)
S_EpollCreate(ok) ==
    /\ prog = "epoll"
    /\ m_pc = "epoll_create"
    /\ IF ok THEN S_Open("tcp_socket", "epoll") ELSE S_Fail(TRUE, FALSE, FALSE)
    /\ UNCHANGED <<prog, ul, running, console, net, frames, a_pc, a_fd, c_pc,
                   ghosts, registered, ready, events, h_fd, sa>>

\* listen_fd = socket(AF_INET, SOCK_STREAM, 0)
S_TcpSocket(ok) ==
    /\ prog \in {"thread", "epoll"}
    /\ m_pc = "tcp_socket"
    /\ IF ok THEN S_Open(IF prog = "epoll" THEN "sockopt" ELSE "port_check",
                       "listen")
       ELSE S_Fail(TRUE, TRUE, FALSE)
    /\ UNCHANGED <<prog, ul, running, console, net, frames, a_pc, a_fd, c_pc,
                   ghosts, registered, ready, events, h_fd, sa>>

\* epoll_server.c: setsockopt(SO_REUSEADDR) or return 1. (tcp_server.c calls
\* it after the port check and ignores its result.)
S_Sockopt(ok) ==
    /\ prog = "epoll"
    /\ m_pc = "sockopt"
    /\ IF ok THEN S_Go("port_check") ELSE S_Fail(TRUE, TRUE, TRUE)
    /\ UNCHANGED <<prog, ul, running, console, net, frames, a_pc, a_fd, c_pc,
                   ghosts, registered, ready, events, h_fd, sa>>

\* serv_addr.sin_port = htons(atoi(argv[1]));
\* if (serv_addr.sin_port == 0) { usage; close...; return 1; }
S_PortCheck ==
    /\ prog \in {"thread", "epoll"}
    /\ m_pc = "port_check"
    /\ LET port == SinPort(su.argv.tcp) IN
         IF port = 0
         THEN /\ m_pc' = "exited"
              /\ su' = [su EXCEPT !.tcp_port = port, !.status = 1]
              /\ udp_closes' = udp_closes + 1
              /\ epoll_closes' = epoll_closes
                                   + (IF prog = "epoll" THEN 1 ELSE 0)
              /\ listen_closes' = listen_closes + 1
         ELSE /\ m_pc' = "bind"
              /\ su' = [su EXCEPT !.tcp_port = port]
              /\ UNCHANGED <<udp_closes, epoll_closes, listen_closes>>
    /\ UNCHANGED <<prog, ul, running, console, net, frames, a_pc, a_fd, c_pc,
                   ghosts, registered, ready, events, h_fd, sa>>

\* bind(listen_fd, &serv_addr, ...): the socket gets the port that
\* serv_addr.sin_port holds in network byte order.
S_Bind(ok) ==
    /\ prog \in {"thread", "epoll"}
    /\ m_pc = "bind"
    /\ IF ok
       THEN /\ m_pc' = "listen"
            /\ su' = [su EXCEPT !.bound = Ntohs(su.tcp_port)]
            /\ UNCHANGED <<udp_closes, epoll_closes, listen_closes>>
       ELSE S_Fail(TRUE, TRUE, TRUE)
    /\ UNCHANGED <<prog, ul, running, console, net, frames, a_pc, a_fd, c_pc,
                   ghosts, registered, ready, events, h_fd, sa>>

\* listen(listen_fd, 10)
S_Listen(ok) ==
    /\ prog \in {"thread", "epoll"}
    /\ m_pc = "listen"
    /\ IF ok
       THEN /\ m_pc' = IF prog = "epoll" THEN "nonblock" ELSE "spawn_accept"
            /\ su' = [su EXCEPT !.listening = TRUE]
            /\ UNCHANGED <<udp_closes, epoll_closes, listen_closes>>
       ELSE S_Fail(TRUE, TRUE, TRUE)
    /\ UNCHANGED <<prog, ul, running, console, net, frames, a_pc, a_fd, c_pc,
                   ghosts, registered, ready, events, h_fd, sa>>

\* epoll_server.c: set_nonblocking(listen_fd)
S_Nonblock(ok) ==
    /\ prog = "epoll"
    /\ m_pc = "nonblock"
    /\ IF ok THEN S_Go("add_epoll") ELSE S_Fail(TRUE, TRUE, TRUE)
    /\ UNCHANGED <<prog, ul, running, console, net, frames, a_pc, a_fd, c_pc,
                   ghosts, registered, ready, events, h_fd, sa>>

\* epoll_server.c: add_to_epoll(listen_fd); connections completed since
\* listen() are announced at once.
S_AddEpoll(ok) ==
    /\ prog = "epoll"
    /\ m_pc = "add_epoll"
    /\ IF ok
       THEN /\ S_Go("loop")
            /\ registered' = {ListenFd}
            /\ ready' = IF backlog /= <<>> THEN {ListenFd} ELSE {}
       ELSE /\ S_Fail(TRUE, TRUE, TRUE)
            /\ UNCHANGED <<registered, ready>>
    /\ UNCHANGED <<prog, ul, running, console, net, frames, a_pc, a_fd, c_pc,
                   ghosts, events, h_fd, sa>>

\* tcp_server.c: pthread_create(&accept_thread, NULL, accept_thread_func)
S_SpawnAccept(ok) ==
    /\ prog = "thread"
    /\ m_pc = "spawn_accept"
    /\ IF ok
       THEN /\ S_Go("loop")
            /\ a_pc' = "test"
       ELSE /\ S_Fail(TRUE, FALSE, TRUE)
            /\ a_pc' = a_pc
    /\ UNCHANGED <<prog, ul, running, console, net, frames, a_fd, c_pc, ghosts,
                   registered, ready, events, h_fd, sa>>

\* ------------------------------------------------------------ udp_server.c
\* The two UDP log servers: udp_server.c with shutdown ("udplog") and
\* without ("udpplain").
UdpProgs == {"udplog", "udpplain"}

UBytes == {0, 1, 2}

\* The payloads of the datagrams that arrive.
Payloads == UNION {[1..k -> UBytes] : k \in 0..MaxDgramLen}

\* recvfrom(sock_fd, buffer, size, 0, NULL, NULL) on datagram d: the first
\* size bytes of the payload are stored, the rest is discarded.
Recvfrom(d, size) == SubSeq(d, 1, Min(Len(d), size))

\* buffer[n] = '\0' after the n bytes recvfrom stored.
Terminate(stored) == Append(stored, 0)

\* The C string at the start of mem: the bytes before the first zero byte.
RECURSIVE CStr(_)
CStr(mem) ==
    IF mem = <<>> \/ Head(mem) = 0 THEN <<>>
    ELSE <<Head(mem)>> \o CStr(Tail(mem))

\* fprintf(fp, "%s", buffer): the bytes written to the file.
FprintfS(mem) == CStr(mem)

NoLog ==
    [pc |-> "none", inbox |-> <<>>, arrived |-> 0, buffer |-> <<>>,
     dgram |-> <<>>, log |-> <<>>, expect |-> <<>>, fp_closes |-> 0,
     sock_closes |-> 0, lateWrites |-> 0, lateRecvs |-> 0]

\* The UDP log server after its startup code: the socket is bound, the log
\* file is open (log is what this run appends to it), the receive thread of
\* the server with shutdown is at its first statement and main of the server
\* without shutdown is at its first recvfrom. Ghost fields: dgram is the
\* payload of the datagram recvfrom returned last, expect the payloads of
\* the datagrams written so far, lateWrites and lateRecvs count the fprintf
\* calls after fclose and the recvfrom calls after close.
LogStart(p) ==
    IF p \in UdpProgs
    THEN [NoLog EXCEPT !.pc = IF p = "udplog" THEN "setsockopt"
                              ELSE "recvfrom"]
    ELSE NoLog

\* A datagram with payload d arrives at the socket.
Arrive(d) ==
    /\ prog \in UdpProgs /\ Alive
    /\ su.bound /= 0 /\ ul.sock_closes = 0
    /\ ul.arrived < MaxDgrams
    /\ ul' = [ul EXCEPT !.inbox = Append(@, d), !.arrived = @ + 1]
    /\ UNCHANGED <<prog, su, running, console, net, frames, threads, fds, ghosts,
                   ep, sa>>

\* ---------------------------------- udp_server.c: udp_receive_thread
\* sock_fd = data->sock_fd; fp = data->fp; free(data);
\* setsockopt(SO_RCVTIMEO): on failure perror and return NULL.
R_Setsockopt(ok) ==
    /\ prog = "udplog" /\ Alive
    /\ ul.pc = "setsockopt"
    /\ ul' = [ul EXCEPT !.pc = IF ok THEN "test" ELSE "done"]
    /\ UNCHANGED <<prog, su, running, console, net, frames, threads, fds, ghosts,
                   ep, sa>>

\* while (1) { if (!running) break;
R_Test ==
    /\ prog = "udplog" /\ Alive
    /\ ul.pc = "test"
    /\ ul' = [ul EXCEPT !.pc = IF running = 1 THEN "recvfrom" ELSE "done"]
    /\ UNCHANGED <<prog, su, running, console, net, frames, threads, fds, ghosts,
                   ep, sa>>

\* n = recvfrom(sock_fd, buffer, sizeof(buffer) - 1, 0, NULL, NULL) returns
\* the datagram at the head of the socket's queue.
R_RecvData ==
    /\ prog = "udplog" /\ Alive
    /\ ul.pc = "recvfrom"
    /\ ul.sock_closes = 0
    /\ ul.inbox /= <<>>
    /\ ul' = [ul EXCEPT !.buffer = Recvfrom(Head(ul.inbox), BUFFER_SIZE - 1),
                        !.dgram = Head(ul.inbox),
                        !.inbox = Tail(@),
                        !.pc = "check"]
    /\ UNCHANGED <<prog, su, running, console, net, frames, threads, fds, ghosts,
                   ep, sa>>

\* recvfrom returns -1: the 1 s timeout on an empty queue (EAGAIN) or another
\* error (as on a closed descriptor); both continue with the loop test.
R_RecvFail(timeout) ==
    /\ prog = "udplog" /\ Alive
    /\ ul.pc = "recvfrom"
    /\ timeout => ul.inbox = <<>> /\ ul.sock_closes = 0
    /\ ul' = [ul EXCEPT !.pc = "test",
                        !.lateRecvs =
                            @ + (IF ul.sock_closes > 0 THEN 1 ELSE 0)]
    /\ UNCHANGED <<prog, su, running, console, net, frames, threads, fds, ghosts,
                   ep, sa>>

\* if (!running) break;  (after a datagram was received)
R_Check ==
    /\ prog = "udplog" /\ Alive
    /\ ul.pc = "check"
    /\ ul' = IF running = 1
             THEN [ul EXCEPT !.pc = "write"]
             ELSE [ul EXCEPT !.pc = "done", !.buffer = <<>>, !.dgram = <<>>]
    /\ UNCHANGED <<prog, su, running, console, net, frames, threads, fds, ghosts,
                   ep, sa>>

\* buffer[n] = '\0'; fprintf(fp, "%s", buffer); fflush(fp); on the record u
\* of the server. The stream is unbuffered (setbuf(fp, NULL)): what fprintf
\* writes is in the file when it returns. A call on a stream that was
\* closed is undefined: the bytes may land in the file or not.
LogWrite(u, landed, next) ==
    [u EXCEPT !.log = IF landed THEN @ \o FprintfS(Terminate(u.buffer))
                      ELSE @,
              !.expect = @ \o u.dgram,
              !.lateWrites = @ + (IF u.fp_closes > 0 THEN 1 ELSE 0),
              !.buffer = <<>>,
              !.dgram = <<>>,
              !.pc = next]

R_Write ==
    /\ prog = "udplog" /\ Alive
    /\ ul.pc = "write"
    /\ \E landed \in (IF ul.fp_closes = 0 THEN {TRUE} ELSE BOOLEAN) :
          ul' = LogWrite(ul, landed, "test")
    /\ UNCHANGED <<prog, su, running, console, net, frames, threads, fds, ghosts,
                   ep, sa>>

\* ------------------------------------------------ udp_server.c: main
\* while (running)
U_Loop ==
    /\ prog = "udplog"
    /\ m_pc = "loop"
    /\ m_pc' = IF running = 1 THEN "fgets" ELSE "join"
    /\ UNCHANGED <<prog, su, ul, running, console, net, frames, a_pc, a_fd, c_pc,
                   fds, ghosts, ep, sa>>

\* if (fgets(input, sizeof(input), stdin))
\*     if (strncmp(input, "quit", 4) == 0) { running = 0; break; }
U_Fgets ==
    /\ prog = "udplog"
    /\ m_pc = "fgets"
    /\ stdio /= <<>> \/ stdin /= <<>>
    /\ LET piece == Fgets(Refilled, INPUT_SIZE) IN
         /\ stdin' = AfterRefill
         /\ stdio' = SubSeq(Refilled, Len(piece) + 1, Len(Refilled))
         /\ running' = IF IsQuitCommand(piece) THEN 0 ELSE running
         /\ m_pc' = IF IsQuitCommand(piece) THEN "join" ELSE "loop"
    /\ UNCHANGED <<prog, su, ul, typed, quitTyped, badTyped, net, frames, a_pc,
                   a_fd, c_pc, fds, ghosts, ep, sa>>

\* pthread_join(udp_thread, NULL) returns once the receive thread, at upc,
\* has returned.
UdpJoinReturnsAtOnce(upc) == TRUE
UdpJoinReturns(upc) == upc = "done"

\* pthread_join(udp_thread, NULL)
U_Join ==
    /\ prog = "udplog"
    /\ m_pc = "join"
    /\ UdpJoinReturns(ul.pc)
    /\ m_pc' = "fclose"
    /\ UNCHANGED <<prog, su, ul, running, console, net, frames, a_pc, a_fd, c_pc,
                   fds, ghosts, ep, sa>>

\* fclose(fp)
U_Fclose ==
    /\ prog = "udplog"
    /\ m_pc = "fclose"
    /\ ul' = [ul EXCEPT !.fp_closes = @ + 1]
    /\ m_pc' = "close_sock"
    /\ UNCHANGED <<prog, su, running, console, net, frames, a_pc, a_fd, c_pc,
                   fds, ghosts, ep, sa>>

\* close(sock_fd)
U_CloseSock ==
    /\ prog = "udplog"
    /\ m_pc = "close_sock"
    /\ ul' = [ul EXCEPT !.sock_closes = @ + 1]
    /\ m_pc' = "return"
    /\ UNCHANGED <<prog, su, running, console, net, frames, a_pc, a_fd, c_pc,
                   fds, ghosts, ep, sa>>

\* return 0
U_Return ==
    /\ prog = "udplog"
    /\ m_pc = "return"
    /\ m_pc' = "exited"
    /\ su' = [su EXCEPT !.status = 0]
    /\ UNCHANGED <<prog, ul, running, console, net, frames, a_pc, a_fd, c_pc,
                   fds, ghosts, ep, sa>>

\* ----------------------------- udp_server.c without shutdown: main
\* while (1) { n = recvfrom(sock_fd, buffer, sizeof(buffer) - 1, ...): the
\* datagram at the head of the queue (the call blocks while it is empty), or
\* -1: perror and continue.
PlainRecvfrom(ok) ==
    /\ prog = "udpplain"
    /\ ul.pc = "recvfrom"
    /\ ok => ul.inbox /= <<>>
    /\ ul' = IF ok
             THEN [ul EXCEPT
                      !.buffer = Recvfrom(Head(ul.inbox), BUFFER_SIZE - 1),
                      !.dgram = Head(ul.inbox),
                      !.inbox = Tail(@),
                      !.pc = "write"]
             ELSE ul
    /\ UNCHANGED <<prog, su, running, console, net, frames, threads, fds, ghosts,
                   ep, sa>>

\* buffer[n] = '\0'; fprintf(fp, "%s", buffer); fflush(fp); }
PlainWrite ==
    /\ prog = "udpplain"
    /\ ul.pc = "write"
    /\ ul' = LogWrite(ul, TRUE, "recvfrom")
    /\ UNCHANGED <<prog, su, running, console, net, frames, threads, fds, ghosts,
                   ep, sa>>

\* ----------------------------------- udp_server.c: main, startup code
\* The command lines tried for the UDP log servers: argc, and when argc is 3
\* the port argument argv[1] (field udp; the fields tcp and host are not
\* used, argv[2] names the log file).
UdpCommandLines ==
    [argc : {3}, tcp : {<<>>}, host : {"valid"}, udp : PortArgs]
    \cup [argc : {2}, tcp : {<<>>}, host : {"valid"}, udp : {<<>>}]

\* return 1 from the startup code after fclose(fp) if f and close(sock_fd)
\* if s.
U_Fail(f, s) ==
    /\ m_pc' = "exited"
    /\ su' = [su EXCEPT !.status = 1]
    /\ ul' = [ul EXCEPT !.fp_closes = @ + (IF f THEN 1 ELSE 0),
                        !.sock_closes = @ + (IF s THEN 1 ELSE 0)]

\* if (argc != 3) { usage; return 1; }
U_Argc ==
    /\ prog \in UdpProgs
    /\ m_pc = "argc"
    /\ IF su.argv.argc /= 3 THEN U_Fail(FALSE, FALSE)
       ELSE m_pc' = "socket" /\ UNCHANGED <<su, ul>>
    /\ UNCHANGED <<prog, running, console, net, frames, a_pc, a_fd, c_pc, fds,
                   ghosts, ep, sa>>

\* sock_fd = socket(AF_INET, SOCK_DGRAM, 0)
U_Socket(ok) ==
    /\ prog \in UdpProgs
    /\ m_pc = "socket"
    /\ IF ok
       THEN /\ m_pc' = "port_check"
            /\ su' = [su EXCEPT !.opened = @ \cup {"sock"}]
            /\ ul' = ul
       ELSE U_Fail(FALSE, FALSE)
    /\ UNCHANGED <<prog, running, console, net, frames, a_pc, a_fd, c_pc, fds,
                   ghosts, ep, sa>>

\* Whether the branch taken for sin_port == 0 calls close(sock_fd) before
\* return 1: the server with shutdown does, the one without does not.
PortZeroCloses(p) == p = "udplog"

\* serv_addr.sin_port = htons(atoi(argv[1]));
\* if (serv_addr.sin_port == 0) { usage; [close(sock_fd);] return 1; }
U_PortCheck ==
    /\ prog \in UdpProgs
    /\ m_pc = "port_check"
    /\ LET port == SinPort(su.argv.udp) IN
         IF port = 0
         THEN /\ m_pc' = "exited"
              /\ su' = [su EXCEPT !.udp_port = port, !.status = 1]
              /\ ul' = [ul EXCEPT !.sock_closes =
                                     @ + (IF PortZeroCloses(prog) THEN 1
                                          ELSE 0)]
         ELSE /\ m_pc' = "bind"
              /\ su' = [su EXCEPT !.udp_port = port]
              /\ ul' = ul
    /\ UNCHANGED <<prog, running, console, net, frames, a_pc, a_fd, c_pc, fds,
                   ghosts, ep, sa>>

\* bind(sock_fd, &serv_addr, ...) or perror, close(sock_fd), return 1.
U_Bind(ok) ==
    /\ prog \in UdpProgs
    /\ m_pc = "bind"
    /\ IF ok
       THEN /\ m_pc' = "fopen"
            /\ su' = [su EXCEPT !.bound = Ntohs(su.udp_port)]
            /\ ul' = ul
       ELSE U_Fail(FALSE, TRUE)
    /\ UNCHANGED <<prog, running, console, net, frames, a_pc, a_fd, c_pc, fds,
                   ghosts, ep, sa>>

\* fp = fopen(argv[2], "a") or perror, close(sock_fd), return 1; then
\* setbuf(fp, NULL). The server without shutdown goes on to its receive
\* loop.
U_Fopen(ok) ==
    /\ prog \in UdpProgs
    /\ m_pc = "fopen"
    /\ IF ok
       THEN /\ m_pc' = IF prog = "udplog" THEN "malloc" ELSE "receiving"
            /\ su' = [su EXCEPT !.opened = @ \cup {"fp"}]
            /\ ul' = IF prog = "udplog" THEN ul ELSE LogStart(prog)
       ELSE U_Fail(FALSE, TRUE)
    /\ UNCHANGED <<prog, running, console, net, frames, a_pc, a_fd, c_pc, fds,
                   ghosts, ep, sa>>

\* thread_data = malloc(sizeof(thread_data_t)) or perror, fclose(fp),
\* close(sock_fd), return 1.
U_Malloc(ok) ==
    /\ prog = "udplog"
    /\ m_pc = "malloc"
    /\ IF ok THEN m_pc' = "spawn" /\ UNCHANGED <<su, ul>>
       ELSE U_Fail(TRUE, TRUE)
    /\ UNCHANGED <<prog, running, console, net, frames, a_pc, a_fd, c_pc, fds,
                   ghosts, ep, sa>>

\* pthread_create(&udp_thread, NULL, udp_receive_thread, thread_data) or
\* perror, fclose(fp), close(sock_fd), free(thread_data), return 1.
U_Spawn(ok) ==
    /\ prog = "udplog"
    /\ m_pc = "spawn"
    /\ IF ok
       THEN /\ m_pc' = "loop"
            /\ ul' = LogStart(prog)
            /\ su' = su
       ELSE U_Fail(TRUE, TRUE)
    /\ UNCHANGED <<prog, running, console, net, frames, a_pc, a_fd, c_pc, fds,
                   ghosts, ep, sa>>


\* ----------------------------------------------------- specifications
NoCall ==
    [pc |-> "none", fd |-> -1, isnull |-> TRUE, buf |-> <<>>, len |-> 0,
     sent |-> 0, ret |-> 0, calls |-> <<>>, wire |-> <<>>, closes |-> 0]

\* What the startup code of program p has opened and holds open when its
\* service starts: the bridges their UDP and listening sockets (and the
\* epoll descriptor), the UDP log servers their socket and the log file.
OpenedBy(p) ==
    IF p = "epoll" THEN {"udp", "epoll", "listen"}
    ELSE IF p \in UdpProgs THEN {"sock", "fp"}
    ELSE {"udp", "listen"}

\* The state right after the startup code of main, with nothing typed and no
\* client connected; p names the program.
InitServer(p) ==
    /\ prog = p
    /\ running = 1
    /\ stdin = <<>> /\ stdio = <<>> /\ typed = 0
    /\ quitTyped = FALSE /\ badTyped = FALSE
    /\ m_pc = IF p = "simple" THEN "accepting"
              ELSE IF p = "udpplain" THEN "receiving" ELSE "loop"
    /\ a_pc = IF p = "thread" THEN "test"
              ELSE IF p = "simple" THEN "malloc" ELSE "none"
    /\ a_fd = 0
    /\ c_pc = [c \in Clients |-> "idle"]
    /\ backlog = <<>>
    /\ conn = [c \in Clients |-> "none"]
    /\ peer = [c \in Clients |-> "up"]
    /\ wr = [c \in Clients |-> 0]
    /\ rd = [c \in Clients |-> 0]
    /\ buffer = [b \in Clients \cup {MainBuf} |-> <<>>]
    /\ n = [b \in Clients \cup {MainBuf} |-> 0]
    /\ reads = [c \in Clients |-> <<>>]
    /\ fwd = [c \in Clients |-> <<>>]
    /\ sendFailed = [c \in Clients |-> FALSE]
    /\ listen_closes = 0 /\ udp_closes = 0 /\ epoll_closes = 0
    /\ lateAccepts = 0 /\ lateSends = 0 /\ liveAtQuit = {}
    /\ lateFwd = [c \in Clients |-> 0]
    /\ client_closes = [c \in Clients |-> 0]
    /\ heap = NoHeap
    /\ registered = IF p = "epoll" THEN {ListenFd} ELSE {}
    /\ ready = {}
    /\ events = {}
    /\ h_fd = 0
    /\ sa = NoCall
    /\ ul = LogStart(p)
    /\ su = [Started EXCEPT !.opened = OpenedBy(p)]

InitThread == InitServer("thread")
InitEpoll == InitServer("epoll")
InitSimple == InitServer("simple")

\* The state at the first statement of main of either bridge, for each of
\* the command lines.
InitStartup ==
    /\ prog \in {"thread", "epoll"}
    /\ running = 1
    /\ stdin = <<>> /\ stdio = <<>> /\ typed = 0
    /\ quitTyped = FALSE /\ badTyped = FALSE
    /\ m_pc = "argc" /\ a_pc = "none" /\ a_fd = 0
    /\ c_pc = [c \in Clients |-> "idle"]
    /\ backlog = <<>>
    /\ conn = [c \in Clients |-> "none"]
    /\ peer = [c \in Clients |-> "up"]
    /\ wr = [c \in Clients |-> 0]
    /\ rd = [c \in Clients |-> 0]
    /\ buffer = [b \in Clients \cup {MainBuf} |-> <<>>]
    /\ n = [b \in Clients \cup {MainBuf} |-> 0]
    /\ reads = [c \in Clients |-> <<>>]
    /\ fwd = [c \in Clients |-> <<>>]
    /\ sendFailed = [c \in Clients |-> FALSE]
    /\ listen_closes = 0 /\ udp_closes = 0 /\ epoll_closes = 0
    /\ lateAccepts = 0 /\ lateSends = 0 /\ liveAtQuit = {}
    /\ lateFwd = [c \in Clients |-> 0]
    /\ client_closes = [c \in Clients |-> 0]
    /\ heap = NoHeap
    /\ registered = {} /\ ready = {} /\ events = {} /\ h_fd = 0
    /\ sa = NoCall
    /\ ul = NoLog
    /\ \E line \in CommandLines : su = NotStarted(line)

\* A call send_all(sockfd, buf, len): buf is NULL or points to at least len
\* bytes.
InitSendAll ==
    /\ prog = "send_all"
    /\ running = 1
    /\ stdin = <<>> /\ stdio = <<>> /\ typed = 0
    /\ quitTyped = FALSE /\ badTyped = FALSE
    /\ m_pc = "none" /\ a_pc = "none" /\ a_fd = 0
    /\ c_pc = [c \in Clients |-> "idle"]
    /\ backlog = <<>>
    /\ conn = [c \in Clients |-> "none"]
    /\ peer = [c \in Clients |-> "up"]
    /\ wr = [c \in Clients |-> 0]
    /\ rd = [c \in Clients |-> 0]
    /\ buffer = [b \in Clients \cup {MainBuf} |-> <<>>]
    /\ n = [b \in Clients \cup {MainBuf} |-> 0]
    /\ reads = [c \in Clients |-> <<>>]
    /\ fwd = [c \in Clients |-> <<>>]
    /\ sendFailed = [c \in Clients |-> FALSE]
    /\ listen_closes = 0 /\ udp_closes = 0 /\ epoll_closes = 0
    /\ lateAccepts = 0 /\ lateSends = 0 /\ liveAtQuit = {}
    /\ lateFwd = [c \in Clients |-> 0]
    /\ client_closes = [c \in Clients |-> 0]
    /\ heap = NoHeap
    /\ registered = {} /\ ready = {} /\ events = {} /\ h_fd = 0
    /\ \E fd \in {-1, 3}, isnull \in BOOLEAN, b \in SaBuffers,
          len \in 0..MaxLen :
         /\ isnull => b = <<>>
         /\ ~isnull => len <= Len(b)
         /\ su = Started
         /\ ul = NoLog
         /\ sa = [pc |-> "entry", fd |-> fd, isnull |-> isnull, buf |-> b,
                  len |-> len, sent |-> 0, ret |-> 0, calls |-> <<>>,
                  wire |-> <<>>, closes |-> 0]

\* The clients cs connect, write and end their connections.
Network(cs) ==
    \/ \E c \in cs : Connect(c)
    \/ \E c \in cs : ClientWrite(c)
    \/ \E c \in cs, how \in {"fin", "rst"} : ClientEnd(c, how)

ThreadSteps ==
    \/ A_Test
    \/ A_AcceptConn
    \/ \E timeout \in BOOLEAN : A_AcceptFail(timeout)
    \/ A_MallocFail
    \/ \E ok \in BOOLEAN : A_Spawn(ok)
    \/ \E c \in Clients : C_Start(c)
    \/ \E c \in Clients : C_Test(c)
    \/ \E c \in Clients, k \in 1..MaxBytes : C_RecvData(c, k)
    \/ \E c \in Clients : C_RecvNone(c)
    \/ \E c \in Clients, ok \in BOOLEAN : C_Sendto(c, ok)
    \/ \E c \in Clients : C_Close(c)
    \/ M_Loop
    \/ M_Fgets
    \/ M_Join
    \/ M_CloseListen
    \/ M_CloseUdp
    \/ M_Return

SimpleSteps ==
    \/ \E ok \in BOOLEAN : SimpleMalloc(ok)
    \/ SimpleAcceptConn
    \/ SimpleAcceptFail
    \/ \E ok \in BOOLEAN : SimpleSpawn(ok)
    \/ \E c \in Clients : SimpleStart(c)
    \/ \E c \in Clients, k \in 1..MaxBytes : SimpleRecvData(c, k)
    \/ \E c \in Clients : SimpleRecvNone(c)
    \/ \E c \in Clients, ok \in BOOLEAN : SimpleSendto(c, ok)
    \/ \E c \in Clients : SimpleClose(c)

EpollSteps ==
    \/ E_Loop
    \/ E_Stdin
    \/ \E outcome \in {"events", "eintr", "error"} : E_Wait(outcome)
    \/ \E outcome \in {"ok", "accept_fail", "setup_fail"} : E_Accept(outcome)
    \/ \E c \in Clients : E_Client(c)
    \/ E_EventsDone
    \/ \E k \in 1..MaxBytes : E_RecvData(k)
    \/ E_RecvNone
    \/ E_Remove
    \/ E_CloseClient
    \/ \E ok \in BOOLEAN : E_Sendto(ok)
    \/ E_Cleanup

StartupSteps ==
    \/ S_Argc
    \/ \E ok \in BOOLEAN : S_UdpSocket(ok)
    \/ S_UdpAddr
    \/ \E ok \in BOOLEAN : S_EpollCreate(ok)
    \/ \E ok \in BOOLEAN : S_TcpSocket(ok)
    \/ \E ok \in BOOLEAN : S_Sockopt(ok)
    \/ S_PortCheck
    \/ \E ok \in BOOLEAN : S_Bind(ok)
    \/ \E ok \in BOOLEAN : S_Listen(ok)
    \/ \E ok \in BOOLEAN : S_Nonblock(ok)
    \/ \E ok \in BOOLEAN : S_AddEpoll(ok)
    \/ \E ok \in BOOLEAN : S_SpawnAccept(ok)

\* The steps of a started bridge that no client connects to.
IdleSteps ==
    \/ A_Test
    \/ \E timeout \in BOOLEAN : A_AcceptFail(timeout)
    \/ A_MallocFail
    \/ M_Loop
    \/ M_Fgets
    \/ M_Join
    \/ M_CloseListen
    \/ M_CloseUdp
    \/ M_Return
    \/ E_Loop
    \/ E_Stdin
    \/ \E outcome \in {"events", "eintr", "error"} : E_Wait(outcome)
    \/ E_EventsDone
    \/ E_Cleanup

\* Either bridge from the first statement of main to its exit, for each of
\* the command lines, with an operator who types quit or nothing.
NextStartup == StartupSteps \/ Type(QUIT, MaxLines) \/ IdleSteps
SpecStartup == InitStartup /\ [][NextStartup]_vars

\* The clients that connect in the specifications with fairness.
LiveClients == 1..MaxLiveClients

\* The steps of the accept thread and of the main thread of tcp_server.c.
AcceptThreadStep ==
    \/ A_Test
    \/ A_AcceptConn
    \/ \E timeout \in BOOLEAN : A_AcceptFail(timeout)
    \/ A_MallocFail
    \/ \E ok \in BOOLEAN : A_Spawn(ok)

MainThreadStep ==
    M_Loop \/ M_Fgets \/ M_Join \/ M_CloseListen \/ M_CloseUdp \/ M_Return

\* The threaded bridge with clients that may send without end, under a fair
\* scheduler: the accept thread and the main thread each take a step when
\* they can (accept returns a connection or times out, fgets returns when a
\* line is there). Nothing is assumed of the client threads or the clients.
NextLiveThread ==
    \/ Type(QUIT, MaxLines)
    \/ Network(LiveClients)
    \/ \E c \in LiveClients : ClientStream(c)
    \/ ThreadSteps

LiveThread ==
    /\ InitThread
    /\ [][NextLiveThread]_vars
    /\ WF_vars(AcceptThreadStep)
    /\ WF_vars(MainThreadStep)

\* The epoll bridge with clients that may send without end; its one thread
\* takes a step whenever it can.
NextLiveEpoll ==
    \/ Type(QUIT, MaxLines)
    \/ Network(LiveClients)
    \/ \E c \in LiveClients : ClientStream(c)
    \/ EpollSteps

LiveEpoll ==
    /\ InitEpoll
    /\ [][NextLiveEpoll]_vars
    /\ WF_vars(EpollSteps)

\* The steps of the epoll bridge when no accept call fails.
EpollStepsAcceptOk ==
    \/ E_Loop
    \/ E_Stdin
    \/ \E outcome \in {"events", "eintr", "error"} : E_Wait(outcome)
    \/ \E outcome \in {"ok", "setup_fail"} : E_Accept(outcome)
    \/ \E c \in Clients : E_Client(c)
    \/ E_EventsDone
    \/ \E k \in 1..MaxBytes : E_RecvData(k)
    \/ E_RecvNone
    \/ E_Remove
    \/ E_CloseClient
    \/ \E ok \in BOOLEAN : E_Sendto(ok)
    \/ E_Cleanup

\* The epoll bridge with all the clients, each sending a bounded stream, in
\* the most favourable setting: no accept call fails, the one thread takes a
\* step whenever it can, and epoll_wait is not interrupted for ever.
NextFairEpoll ==
    Type(QUIT, MaxLines) \/ Network(Clients) \/ EpollStepsAcceptOk

FairEpoll ==
    /\ InitEpoll
    /\ [][NextFairEpoll]_vars
    /\ WF_vars(EpollStepsAcceptOk)
    /\ SF_vars(E_Wait("events"))

\* The bridges with all their clients; the operator types quit or nothing.
NextThread == Type(QUIT, MaxLines) \/ Network(Clients) \/ ThreadSteps
NextEpoll == Type(QUIT, MaxLines) \/ Network(Clients) \/ EpollSteps

\* The bridges with one client and an operator who types any of Lines.
NextConsole ==
    \/ \E line \in Lines : Type(line, MaxConsoleLines)
    \/ Network({1})
    \/ ThreadSteps
    \/ EpollSteps

NextSendAll ==
    \/ SA_Validate
    \/ \E res \in -1..MaxLen : SA_Send(res)
    \/ SA_Return
    \/ TC_Close

SpecThread == InitThread /\ [][NextThread]_vars
SpecEpoll == InitEpoll /\ [][NextEpoll]_vars
SpecSendAll == InitSendAll /\ [][NextSendAll]_vars

\* Both bridges.
Init == InitThread \/ InitEpoll
Next == NextThread \/ NextEpoll
Spec == Init /\ [][Next]_vars
SpecConsole == Init /\ [][NextConsole]_vars

\* The two UDP log servers.
UdpLogSteps ==
    \/ \E ok \in BOOLEAN : R_Setsockopt(ok)
    \/ R_Test
    \/ R_RecvData
    \/ \E timeout \in BOOLEAN : R_RecvFail(timeout)
    \/ R_Check
    \/ R_Write
    \/ U_Loop
    \/ U_Fgets
    \/ U_Join
    \/ U_Fclose
    \/ U_CloseSock
    \/ U_Return

UdpPlainSteps ==
    \/ \E ok \in BOOLEAN : PlainRecvfrom(ok)
    \/ PlainWrite

InitUdp == InitServer("udplog") \/ InitServer("udpplain")
NextUdp ==
    \/ Type(QUIT, MaxLines)
    \/ \E d \in Payloads : Arrive(d)
    \/ UdpLogSteps
    \/ UdpPlainSteps
SpecUdp == InitUdp /\ [][NextUdp]_vars

\* The steps of udp_receive_thread and of main of the UDP log server with
\* shutdown.
ReceiveThreadStep ==
    \/ \E ok \in BOOLEAN : R_Setsockopt(ok)
    \/ R_Test
    \/ R_RecvData
    \/ \E timeout \in BOOLEAN : R_RecvFail(timeout)
    \/ R_Check
    \/ R_Write

UdpMainStep ==
    U_Loop \/ U_Fgets \/ U_Join \/ U_Fclose \/ U_CloseSock \/ U_Return

\* The UDP log server with shutdown under a fair scheduler: the receive
\* thread and main each take a step when they can (recvfrom returns a
\* datagram, times out after 1 s or fails; fgets returns when a line is
\* there).
NextFairUdp ==
    \/ Type(QUIT, MaxLines)
    \/ \E d \in Payloads : Arrive(d)
    \/ ReceiveThreadStep
    \/ UdpMainStep

FairUdp ==
    /\ InitServer("udplog")
    /\ [][NextFairUdp]_vars
    /\ WF_vars(ReceiveThreadStep)
    /\ WF_vars(UdpMainStep)

\* The startup code of the UDP log servers.
UdpStartupSteps ==
    \/ U_Argc
    \/ \E ok \in BOOLEAN : U_Socket(ok)
    \/ U_PortCheck
    \/ \E ok \in BOOLEAN : U_Bind(ok)
    \/ \E ok \in BOOLEAN : U_Fopen(ok)
    \/ \E ok \in BOOLEAN : U_Malloc(ok)
    \/ \E ok \in BOOLEAN : U_Spawn(ok)

InitUdpStartup ==
    /\ prog \in UdpProgs
    /\ running = 1
    /\ stdin = <<>> /\ stdio = <<>> /\ typed = 0
    /\ quitTyped = FALSE /\ badTyped = FALSE
    /\ m_pc = "argc" /\ a_pc = "none" /\ a_fd = 0
    /\ c_pc = [c \in Clients |-> "idle"]
    /\ backlog = <<>>
    /\ conn = [c \in Clients |-> "none"]
    /\ peer = [c \in Clients |-> "up"]
    /\ wr = [c \in Clients |-> 0]
    /\ rd = [c \in Clients |-> 0]
    /\ buffer = [b \in Clients \cup {MainBuf} |-> <<>>]
    /\ n = [b \in Clients \cup {MainBuf} |-> 0]
    /\ reads = [c \in Clients |-> <<>>]
    /\ fwd = [c \in Clients |-> <<>>]
    /\ sendFailed = [c \in Clients |-> FALSE]
    /\ listen_closes = 0 /\ udp_closes = 0 /\ epoll_closes = 0
    /\ lateAccepts = 0 /\ lateSends = 0 /\ liveAtQuit = {}
    /\ lateFwd = [c \in Clients |-> 0]
    /\ client_closes = [c \in Clients |-> 0]
    /\ heap = NoHeap
    /\ registered = {} /\ ready = {} /\ events = {} /\ h_fd = 0
    /\ sa = NoCall
    /\ ul = NoLog
    /\ \E line \in UdpCommandLines : su = NotStarted(line)

\* The two bridges that shut down and the two UDP log servers, each from the
\* first statement of main, for each of the command lines.
InitAllStartup == InitStartup \/ InitUdpStartup
NextAllStartup ==
    \/ NextStartup
    \/ UdpStartupSteps
    \/ \E d \in Payloads : Arrive(d)
    \/ UdpLogSteps
    \/ UdpPlainSteps
SpecAllStartup == InitAllStartup /\ [][NextAllStartup]_vars

\* The three servers that forward TCP to UDP: the two bridges and the
\* threaded server without shutdown.
NextSimple == Network(Clients) \/ SimpleSteps
InitBridges == Init \/ InitSimple
NextBridges == Next \/ NextSimple
SpecBridges == InitBridges /\ [][NextBridges]_vars


\* --------------------------------------------------------------- claims
Front(q) == SubSeq(q, 1, Len(q) - 1)
Last(q) == q[Len(q)]

RECURSIVE Flatten(_)
Flatten(chunks) ==
    IF chunks = <<>> THEN <<>> ELSE Head(chunks) \o Flatten(Tail(chunks))

\* The handler of connection c has read a chunk and not yet passed it to
\* sendto.
InFlight(c) ==
    \/ prog = "thread" /\ c_pc[c] = "sendto"
    \/ prog = "epoll" /\ m_pc = "sendto" /\ h_fd = c

\* The frame (buffer and n) the handler of connection c works in.
FrameOf(c) == IF prog = "thread" THEN BufferOf(c) ELSE MainBuf

\* The datagram the handler of c is about to pass to sendto.
Pending(c) == Datagram(buffer[FrameOf(c)], n[FrameOf(c)])

\* C1: in both bridges and for every connection, each recv that returned
\* 1..4096 bytes is answered by one sendto carrying exactly those bytes: the
\* chunks passed to sendto are, in order, the chunks recv returned (the last
\* one still pending while the handler is between recv and sendto), and they
\* concatenate to the bytes consumed from the connection.
C1_ForwardsAreReads ==
    \A c \in Clients :
        /\ \A i \in 1..Len(reads[c]) : Len(reads[c][i]) \in 1..BUFFER_SIZE
        /\ IF InFlight(c)
           THEN fwd[c] = Front(reads[c]) /\ Pending(c) = Last(reads[c])
           ELSE fwd[c] = reads[c]
        /\ Flatten(reads[c]) = Chunk(c, 0, rd[c])
        /\ Flatten(fwd[c]) = Chunk(c, 0, rd[c] - (IF InFlight(c)
                                                  THEN Len(Pending(c)) ELSE 0))

\* Two recv calls of one client_thread, each followed by its sendto, while
\* the other connection has been forwarded too.
C1_Witness ==
    /\ prog = "thread"
    /\ \A c \in Clients : Len(fwd[c]) = 2 /\ fwd[c] = reads[c]

\* C2: whatever the interleaving of the handlers, every datagram passed to
\* sendto holds bytes of the handler's own connection only, and between a
\* handler's recv and its sendto its buffer still holds the chunk it read.
C2_NoMixing ==
    \A c \in Clients :
        /\ \A i \in 1..Len(fwd[c]) :
              \A j \in 1..Len(fwd[c][i]) : fwd[c][i][j][1] = c
        /\ InFlight(c) =>
              /\ Len(Pending(c)) = n[FrameOf(c)]
              /\ \A j \in 1..Len(Pending(c)) :
                    Pending(c)[j] = Byte(c, rd[c] - n[FrameOf(c)] + j)

\* Both client threads are between recv and sendto at once, one of them
\* having forwarded a chunk before.
C2_Witness ==
    /\ prog = "thread"
    /\ \A c \in Clients : c_pc[c] = "sendto"
    /\ \E c \in Clients : Len(fwd[c]) = 1

\* The handler of c is in its read loop: at the loop test or in recv.
Reading(c) ==
    \/ prog = "thread" /\ c_pc[c] \in {"test", "recv"}
    \/ prog = "epoll" /\ m_pc = "recv" /\ h_fd = c

\* C3: a failed sendto closes nothing: the connection of the chunk stays open
\* and its handler is back in the read loop (which it leaves only as it
\* would after a successful send: in the threaded bridge when it finds
\* running = 0), and the chunk it reads next is passed to sendto again.
C3_SendFailureKeepsReading ==
    /\ [](\A c \in Clients :
            sendFailed[c] =>
               /\ conn[c] = "open"
               /\ Reading(c) \/ (prog = "thread" /\ c_pc[c] = "close"
                                 /\ running = 0))
    /\ [][\A c \in Clients :
            sendFailed[c] /\ reads'[c] /= reads[c] =>
               InFlight(c)' /\ Pending(c)' = Last(reads'[c])]_vars

\* After a failed sendto the handler is in recv again, with a byte to read.
C3_Witness ==
    \E c \in Clients :
        /\ sendFailed[c]
        /\ Len(fwd[c]) = 1
        /\ running = 1
        /\ Reading(c)
        /\ wr[c] > rd[c]


\* C4, as claimed: in the threaded bridge, once quit has set running to 0
\* the accept thread accepts no connection (and so starts no client_thread
\* for one).
C4_NoAcceptAfterQuit == lateAccepts = 0

\* C4, amended: after running was set to 0 the accept thread accepts at most
\* one more connection, through the accept call it entered after its last
\* loop test that still saw running = 1; once it has seen running = 0 at the
\* loop test it has left the loop: it accepts nothing and starts no
\* client_thread.
C4_AtMostOneLateAccept ==
    /\ [](lateAccepts <= 1)
    /\ [][a_pc = "exit" =>
            /\ a_pc' = "exit"
            /\ lateAccepts' = lateAccepts
            /\ Len(backlog') >= Len(backlog)
            /\ \A c \in Clients : c_pc[c] = "idle" => c_pc'[c] = "idle"]_vars

\* The accept thread has left its loop after accepting a connection that
\* arrived when running was already 0, while another one waits unaccepted.
C4_Witness ==
    /\ prog = "thread"
    /\ a_pc = "exit"
    /\ lateAccepts = 1
    /\ backlog /= <<>>

\* C5: in the threaded bridge, when main closes the UDP socket every
\* connection that was open when quit was read has been served to the end:
\* the chunk its thread had read has been passed to sendto and the thread has
\* closed the socket.
C5_HandlersDoneBeforeUdpClose ==
    (prog = "thread" /\ udp_closes > 0) =>
        \A c \in liveAtQuit :
            /\ c_pc[c] \in {"idle", "done"}
            /\ conn[c] = "closed"
            /\ fwd[c] = reads[c]

\* C6: in the epoll bridge, when main has run its cleanup code after quit no
\* accepted client socket is still open.
C6_NoClientOpenAfterCleanup ==
    (prog = "epoll" /\ m_pc = "exited" /\ running = 0) =>
        \A c \in Clients : conn[c] /= "open"


\* main is in the loop that reads the console.
ReadingConsole ==
    \/ prog = "thread" /\ m_pc \in {"loop", "fgets"}
    \/ prog = "epoll" /\ m_pc \in {"loop", "stdin", "wait", "events", "recv",
                                   "sendto", "remove", "close_client"}

\* C7: running starts at 1 and stays 1 as long as main reads the console; its
\* only change is from 1 to 0; once it is 0 main reads no more console input,
\* so a second quit changes nothing; and the listening socket and the UDP
\* socket are each closed at most once.
C7_RunningFallsOnce ==
    /\ running = 1
    /\ [](/\ running \in {0, 1}
          /\ ReadingConsole => running = 1
          /\ listen_closes <= 1
          /\ udp_closes <= 1)
    /\ [][/\ running' /= running => running = 1 /\ running' = 0
          /\ running = 0 => Len(stdin') >= Len(stdin) /\ stdio' = stdio]_vars

\* quit was typed twice: the server has stopped on the first and the second
\* is still unread.
C7_Witness ==
    /\ m_pc = "exited"
    /\ running = 0
    /\ typed = 2
    /\ ~badTyped
    /\ stdin = QUIT \o <<NL>>
    /\ listen_closes = 1
    /\ udp_closes = 1

\* C8: running is set to 0 only when the operator has typed the line quit.
C8_OnlyQuitStops == running = 0 => quitTyped

RECURSIVE SumRes(_)
SumRes(calls) ==
    IF calls = <<>> THEN 0 ELSE Head(calls).res + SumRes(Tail(calls))

\* C9: for a non-NULL buffer and len > 0, every send attempt is for the
\* unsent suffix (it starts at the number of bytes taken so far and asks for
\* the rest), the bytes handed to the transport are the first sent bytes of
\* the buffer, once and in order, and send_all returns 0 exactly when every
\* attempt returned a positive count and the counts add up to len.
C9_SendAllSendsSuffixes ==
    (prog = "send_all" /\ ~sa.isnull /\ sa.len > 0) =>
        /\ \A i \in 1..Len(sa.calls) :
              /\ sa.calls[i].off = SumRes(SubSeq(sa.calls, 1, i - 1))
              /\ sa.calls[i].cnt = sa.len - sa.calls[i].off
        /\ sa.wire = SubSeq(sa.buf, 1, sa.sent)
        /\ sa.pc = "done" =>
              (sa.ret = 0 <=>
                  /\ \A i \in 1..Len(sa.calls) : sa.calls[i].res > 0
                  /\ SumRes(sa.calls) = sa.len)

\* A buffer of MaxLen different-looking bytes went out in more than one send.
C9_Witness ==
    /\ prog = "send_all"
    /\ sa.pc = "done"
    /\ sa.ret = 0
    /\ sa.len = MaxLen
    /\ Len(sa.calls) > 1
    /\ sa.buf[1] /= sa.buf[2]

\* C10: send_all with len = 0 returns 0 and calls send not once, whatever the
\* socket and the buffer, NULL included.
C10_ZeroLengthSucceeds ==
    (prog = "send_all" /\ sa.len = 0) =>
        /\ sa.calls = <<>>
        /\ sa.pc = "done" => sa.ret = 0

\* send_all(-1, NULL, 0) has returned 0.
C10_Witness ==
    /\ prog = "send_all"
    /\ sa.pc = "done"
    /\ sa.len = 0
    /\ sa.isnull
    /\ sa.fd < 0
    /\ sa.ret = 0

\* C11: send_all with a NULL buffer and len /= 0 returns -1 and calls send
\* not once, whatever the socket.
C11_NullBufferRejected ==
    (prog = "send_all" /\ sa.isnull /\ sa.len /= 0) =>
        /\ sa.calls = <<>>
        /\ sa.wire = <<>>
        /\ sa.pc \in {"entry", "done", "closed"}
        /\ sa.pc \in {"done", "closed"} => sa.ret = -1

\* send_all(3, NULL, MaxLen) has returned -1 on a usable socket.
C11_Witness ==
    /\ prog = "send_all"
    /\ sa.pc = "done"
    /\ sa.isnull
    /\ sa.len = MaxLen
    /\ sa.fd >= 0
    /\ sa.ret = -1
    /\ sa.calls = <<>>

\* C12: in send_all a send that returns a value <= 0 is the last send of the
\* call and the call returns -1; the bytes the transport took before it went
\* out once (the wire holds the first sent bytes of the buffer and no more);
\* and the socket is closed by the caller only, after send_all has returned.
C12_FailureIsTerminal ==
    prog = "send_all" =>
        /\ \A i \in 1..Len(sa.calls) :
              sa.calls[i].res <= 0 =>
                  /\ i = Len(sa.calls)
                  /\ sa.pc \in {"done", "closed"}
                  /\ sa.ret = -1
        /\ sa.wire = SubSeq(sa.buf, 1, sa.sent)
        /\ Len(sa.wire) = SumRes(SelectSeq(sa.calls, LAMBDA c : c.res > 0))
        /\ sa.closes = IF sa.pc = "closed" THEN 1 ELSE 0

\* A send took part of the buffer, the next one failed, send_all has returned
\* -1 and the socket is still open.
C12_Witness ==
    /\ prog = "send_all"
    /\ sa.pc = "done"
    /\ sa.ret = -1
    /\ Len(sa.calls) = 2
    /\ sa.calls[1].res > 0
    /\ sa.calls[2].res <= 0
    /\ sa.closes = 0


\* Connection c is closed by this step.
ClosingStep(c) == conn[c] /= "closed" /\ conn'[c] = "closed"

\* Connection d is served: its handler is in, or on its way to, the read
\* loop (or on its way out because d's own peer has ended); in the epoll
\* bridge d is in the epoll set and whatever is unread on it is announced by
\* an edge that is pending, delivered or being handled.
Served(d) ==
    IF prog = "thread"
    THEN \/ c_pc[d] \in {"start", "test", "recv", "sendto"}
         \/ c_pc[d] = "close" /\ peer[d] /= "up"
         \/ c_pc[d] = "idle" /\ a_pc = "spawn" /\ a_fd = d
    ELSE \/ h_fd = d /\ m_pc = "close_client" /\ peer[d] /= "up"
         \/ /\ d \in registered
            /\ (wr[d] > rd[d] \/ peer[d] /= "up") =>
                   (d \in ready \/ d \in events \/ h_fd = d)

\* C13: in both bridges a step that closes one connection (its peer closed
\* or reset it, or its set-up failed) touches no other connection: every
\* other connection keeps its state, its handler, its place in the epoll set
\* and its pending edges and data; the acceptor keeps its place, the listen
\* queue and the listening socket, which stays open and in the epoll set;
\* and as long as running is 1 every open connection is served.
C13_ClosureIsLocal ==
    /\ [](\A d \in Clients :
            (Alive /\ running = 1 /\ conn[d] = "open") => Served(d))
    /\ [][\A c \in Clients : ClosingStep(c) =>
            /\ \A d \in Clients \ {c} :
                  /\ conn'[d] = conn[d]
                  /\ c_pc'[d] = c_pc[d]
                  /\ (d \in registered') = (d \in registered)
                  /\ d \in ready => d \in ready'
                  /\ d \in events => d \in events'
                  /\ rd'[d] = rd[d] /\ wr'[d] = wr[d]
                  /\ reads'[d] = reads[d] /\ fwd'[d] = fwd[d]
                  /\ peer'[d] = peer[d]
            /\ running' = running
            /\ listen_closes' = listen_closes /\ udp_closes' = udp_closes
            /\ (ListenFd \in registered') = (ListenFd \in registered)
            /\ ListenFd \in ready => ListenFd \in ready'
            /\ prog = "thread" => a_pc' \in {a_pc, "test"} /\ m_pc' = m_pc
            /\ prog = "epoll" => m_pc' = "events"
            /\ SelectSeq(backlog', LAMBDA d : d /= c)
                  = SelectSeq(backlog, LAMBDA d : d /= c)]_vars

\* Connection 1 was reset by its peer and closed; connection 2 is open, its
\* bytes all read and forwarded, and the server is still running.
C13_Witness ==
    /\ running = 1
    /\ conn[1] = "closed" /\ peer[1] = "rst"
    /\ conn[2] = "open" /\ peer[2] = "up"
    /\ rd[2] = MaxBytes
    /\ Len(Flatten(fwd[2])) = MaxBytes


\* C14: in both bridges the loop that accepts connections is left only once
\* running is 0: the accept thread has returned, or the epoll main has left
\* its event loop for the cleanup code, only if running = 0.
C14_AcceptLoopLeftOnlyAfterQuit ==
    /\ (prog = "thread" /\ a_pc = "exit") => running = 0
    /\ (prog = "epoll" /\ m_pc \in {"cleanup", "exited"}) => running = 0


C16_ExitStatus ==
    m_pc = "exited" =>
        /\ su.status \in {0, 1}
        /\ su.status = 0 <=> running = 0
        /\ su.status = 1 => (a_pc = "none" /\ registered = {})

\* C17: in both bridges, if argv[1] or argv[3] evaluates to 0 the bridge
\* binds and listens on no port, and its exit status is 1.
C17_ZeroPortRejected ==
    (su.argv.argc = 4 /\ (Atoi(su.argv.tcp) = 0 \/ Atoi(su.argv.udp) = 0)) =>
        /\ su.bound = 0
        /\ ~su.listening
        /\ m_pc = "exited" => su.status = 1

\* C18: in both bridges, if the integer value of argv[1] is outside 1..65535
\* the bridge binds to no port, and its exit status is 1.
C18_PortRangeChecked ==
    (su.argv.argc = 4 /\ Atoi(su.argv.tcp) \notin 1..65535) =>
        /\ su.bound = 0
        /\ m_pc = "exited" => su.status = 1


\* C19: in the threaded bridge, under a fair scheduler and whatever the
\* clients do, once quit has been read (running is 0) main eventually
\* returns with status 0.
C19_QuitLeadsToReturn ==
    (prog = "thread" /\ running = 0) ~> (m_pc = "exited" /\ su.status = 0)

\* main has returned 0 while a client thread was still blocked in recv on an
\* open connection whose client goes on sending.
C19_Witness ==
    /\ prog = "thread"
    /\ m_pc = "exited"
    /\ su.status = 0
    /\ \E c \in Clients :
          conn[c] = "open" /\ c_pc[c] = "recv" /\ wr[c] > rd[c]

\* C20: in the epoll bridge, whatever the clients do, once the operator has
\* typed quit the server eventually stops.
C20_TypedQuitLeadsToStop ==
    (prog = "epoll" /\ quitTyped) ~> (m_pc = "exited")


\* C21: in the threaded bridge a client_thread that finds running = 0 at its
\* loop test goes to close(client_fd), and a client_thread on its way to
\* close or past it issues no recv and no sendto: nothing more is consumed
\* from its connection or forwarded for it, and its next step is the close.
C21_NoReadAfterFlagSeen ==
    [][prog = "thread" =>
        \A c \in Clients :
            /\ (c_pc[c] = "test" /\ c_pc'[c] /= "test" /\ running = 0) =>
                  c_pc'[c] = "close"
            /\ c_pc[c] \in {"close", "done"} =>
                  /\ c_pc'[c] \in {"close", "done"}
                  /\ rd'[c] = rd[c]
                  /\ reads'[c] = reads[c]
                  /\ fwd'[c] = fwd[c]
                  /\ c_pc'[c] /= c_pc[c] => ClosingStep(c)]_vars

\* A client_thread has closed its connection on seeing running = 0, with
\* its peer still up and bytes of it unread.
C21_Witness ==
    /\ prog = "thread"
    /\ running = 0
    /\ \E c \in Clients :
          /\ c_pc[c] = "done" /\ conn[c] = "closed"
          /\ peer[c] = "up"
          /\ wr[c] > rd[c]

\* C22: in the threaded bridge a recv that times out (the peer is up and has
\* sent nothing more) leaves the connection open and the thread at its loop
\* test, with nothing consumed; a recv that reports end of stream or another
\* error sends the thread to close; a client_thread goes to close in no
\* other way than these and the loop test with running = 0; and it closes
\* its connection only from there.
C22_OnlyEofOrErrorCloses ==
    [][prog = "thread" =>
        \A c \in Clients :
            /\ (c_pc[c] = "recv" /\ c_pc'[c] /= "recv") =>
                  \/ c_pc'[c] = "sendto" /\ rd'[c] > rd[c]
                  \/ /\ peer[c] = "up" /\ wr[c] = rd[c]
                     /\ c_pc'[c] = "test"
                     /\ conn'[c] = "open" /\ rd'[c] = rd[c]
                  \/ /\ peer[c] /= "up"
                     /\ c_pc'[c] = "close"
            /\ (c_pc'[c] = "close" /\ c_pc[c] /= "close") =>
                  \/ c_pc[c] = "test" /\ running = 0
                  \/ c_pc[c] = "recv" /\ peer[c] /= "up"
            /\ (ClosingStep(c) /\ c_pc[c] /= "idle") =>
                  c_pc[c] = "close"]_vars

\* With the server running, a connection was closed because its peer had
\* closed its end, after all its bytes were read and forwarded, while the
\* thread of another, silent, connection is still in its read loop.
C22_Witness ==
    /\ prog = "thread"
    /\ running = 1
    /\ conn[1] = "closed" /\ c_pc[1] = "done" /\ peer[1] = "fin"
    /\ Len(Flatten(fwd[1])) = MaxBytes
    /\ conn[2] = "open" /\ peer[2] = "up" /\ wr[2] = 0
    /\ c_pc[2] \in {"test", "recv"}

\* C24: in the threaded bridge each client_thread calls sendto at most once
\* with running = 0, and a client_thread that holds a chunk always passes
\* it to sendto, whatever running is: it leaves that place in no other way.
C24_AtMostOneLateForward ==
    /\ [](prog = "thread" => \A c \in Clients : lateFwd[c] <= 1)
    /\ [][prog = "thread" =>
            \A c \in Clients :
                (c_pc[c] = "sendto" /\ c_pc'[c] /= "sendto") =>
                    /\ fwd'[c] = Append(fwd[c], Pending(c))
                    /\ c_pc'[c] = "test"]_vars

\* Both client threads have forwarded a chunk after running became 0.
C24_Witness ==
    /\ prog = "thread"
    /\ running = 0
    /\ \A c \in Clients : lateFwd[c] = 1 /\ fwd[c] = reads[c]

\* C29: in the threaded bridge no client_thread calls sendto on udp_socket
\* after main has closed it.
C29_NoSendAfterUdpClose ==
    prog = "thread" => lateSends = 0

\* C25: in the epoll bridge every connection that reaches the listen queue
\* while the server is running is eventually accepted (taken from the queue),
\* unless the server stops first; also when several connections arrive
\* between two epoll_wait calls.
C25_QueuedIsAccepted ==
    \A c \in Clients :
        (prog = "epoll" /\ conn[c] = "queued") ~>
            (conn[c] /= "queued" \/ running = 0 \/ ~Alive)

\* handle_client_data is running for connection c.
Handling(c) == prog = "epoll" /\ h_fd = c /\ m_pc \in {"recv", "sendto"}

\* C26: in the epoll bridge handle_client_data, once called for a client,
\* leaves its loop only from a recv that reported would-block, end of stream
\* or an error, with every chunk it read passed to sendto; so bytes that are
\* unread on a registered connection (one that was not reset, which discards
\* them) are always announced by an edge that is pending or delivered, or
\* the handler is running for that connection.
C26_HandlerDrainsSocket ==
    /\ [](\A c \in Clients :
            (/\ prog = "epoll" /\ c \in registered
             /\ wr[c] > rd[c] /\ peer[c] /= "rst") =>
                (c \in ready \/ c \in events \/ Handling(c)))
    /\ [][\A c \in Clients : (Handling(c) /\ ~Handling(c)') =>
            /\ m_pc = "recv"
            /\ rd[c] = wr[c] \/ peer[c] = "rst"
            /\ fwd'[c] = reads'[c]]_vars

\* handle_client_data has read and forwarded two chunks of connection 1, all
\* that its client has written, and is in the recv call that will report
\* would-block; no further edge is pending for the connection.
C26_Witness ==
    /\ Handling(1) /\ m_pc = "recv"
    /\ peer[1] = "up"
    /\ rd[1] = MaxBytes /\ wr[1] = MaxBytes
    /\ Len(reads[1]) = 2 /\ fwd[1] = reads[1]
    /\ 1 \notin ready /\ 1 \notin events

\* The set-up of a handler for the accepted connection c fails in this step:
\* pthread_create fails in the threaded servers, set_nonblocking or
\* add_to_epoll fails in the epoll bridge.
SetupFailureStep(c) ==
    IF prog = "epoll"
    THEN /\ backlog /= <<>> /\ Head(backlog) = c
         /\ backlog' = Tail(backlog)
         /\ c \notin registered'
    ELSE /\ a_pc = "spawn" /\ a_fd = c
         /\ a_pc' /= "spawn"
         /\ c_pc'[c] = "idle"

\* C27: when a connection was accepted and the set-up of its handler fails,
\* that step closes the socket (once), with nothing read from it or
\* forwarded for it, and the acceptor is back at the head of its loop with
\* the listening socket open; and nothing is read from or forwarded for a
\* closed socket afterwards.
C27_SetupFailureClosesSocket ==
    /\ [][\A c \in Clients : SetupFailureStep(c) =>
            /\ conn'[c] = "closed"
            /\ client_closes'[c] = 1
            /\ rd'[c] = 0 /\ reads'[c] = <<>> /\ fwd'[c] = <<>>
            /\ c_pc'[c] = "idle" /\ c \notin registered' /\ c \notin ready'
            /\ prog = "thread" => a_pc' = "test"
            /\ prog = "simple" => a_pc' = "malloc"
            /\ prog = "epoll" => m_pc' = "events" /\ ListenFd \in registered'
            /\ listen_closes' = listen_closes
            /\ running' = running]_vars
    /\ [][\A c \in Clients : conn[c] = "closed" =>
            /\ conn'[c] = "closed"
            /\ rd'[c] = rd[c] /\ reads'[c] = reads[c] /\ fwd'[c] = fwd[c]
            /\ c_pc'[c] = c_pc[c]]_vars

\* The set-up for connection 1 failed: it is closed while its client is up
\* and has written bytes, none of which was read; connection 2 was accepted
\* and a chunk of it was forwarded.
C27_Witness ==
    /\ running = 1
    /\ conn[1] = "closed" /\ peer[1] = "up"
    /\ wr[1] > 0 /\ rd[1] = 0 /\ fwd[1] = <<>>
    /\ client_closes[1] = 1
    /\ conn[2] = "open" /\ fwd[2] /= <<>>

\* Connection c is closed in this step by the handler that serves it: its
\* client_thread, or main of the epoll bridge after handle_client_data
\* returned -1 for it.
ClosedByHandler(c) ==
    IF prog = "epoll"
    THEN h_fd = c /\ m_pc = "close_client"
    ELSE c_pc[c] = "close" /\ c_pc'[c] = "done"

\* C28 as stated: an accepted socket is closed only by the handler that owns
\* it.
C28_ClosedOnlyByHandler ==
    [][\A c \in Clients : ClosingStep(c) => ClosedByHandler(c)]_vars

\* C28: in each of the three servers an accepted socket is closed at most
\* once, by the handler that serves it or, when no handler could be set up
\* for it, by the acceptor in the step in which the set-up fails; in the
\* epoll bridge it is out of the epoll set when it is closed; and once it is
\* closed it is used no more: no handler is at work on it, it is not in the
\* epoll set, no event is pending or delivered for it, nothing is read from
\* it and it is not closed again.
C28_ClosedOnceThenUnused ==
    /\ [](\A c \in Clients :
            /\ client_closes[c] <= 1
            /\ (client_closes[c] = 1) = (conn[c] = "closed")
            /\ conn[c] = "closed" =>
                  /\ c \notin registered /\ c \notin ready /\ c \notin events
                  /\ h_fd /= c /\ a_fd /= c
                  /\ c_pc[c] \in {"idle", "done"})
    /\ [][\A c \in Clients : ClosingStep(c) =>
            /\ ClosedByHandler(c) \/ SetupFailureStep(c)
            /\ c \notin registered
            /\ \A d \in Clients \ {c} : client_closes'[d] = client_closes[d]]_vars
    /\ [][\A c \in Clients : conn[c] = "closed" =>
            /\ client_closes'[c] = client_closes[c]
            /\ rd'[c] = rd[c]
            /\ c \notin registered' /\ c \notin ready' /\ c \notin events'
            /\ h_fd' /= c /\ a_fd' /= c]_vars

\* In the epoll bridge connection 1 was read, removed from the epoll set
\* and closed after its client ended, while connection 2 is open and in the
\* epoll set.
C28_Witness ==
    /\ prog = "epoll"
    /\ conn[1] = "closed" /\ client_closes[1] = 1
    /\ peer[1] = "fin" /\ rd[1] = MaxBytes
    /\ registered = {ListenFd, 2}
    /\ conn[2] = "open"

\* C23: what the UDP log server has appended to the log file is, at every
\* moment, the payloads of the datagrams it has written, whole and unchanged
\* and in arrival order.
C23_LogIsPayloads ==
    prog \in UdpProgs => ul.log = ul.expect

\* C30: in the UDP log server with shutdown main closes the log file and the
\* socket, once each, only when the receive thread has returned and
\* pthread_join has returned after it: no fprintf is made after fclose and
\* no recvfrom after close, and the file does not change once the thread has
\* returned.
C30_CloseAfterJoin ==
    /\ [](prog = "udplog" =>
            /\ ul.lateWrites = 0 /\ ul.lateRecvs = 0
            /\ ul.fp_closes <= 1 /\ ul.sock_closes <= 1
            /\ ul.sock_closes <= ul.fp_closes
            /\ ul.fp_closes > 0 =>
                  /\ ul.pc = "done"
                  /\ running = 0
                  /\ m_pc \in {"close_sock", "return", "exited"}
            /\ m_pc \in {"fclose", "close_sock", "return", "exited"} =>
                  ul.pc = "done")
    /\ [][(prog = "udplog" /\ ul.pc = "done") =>
            /\ ul'.pc = "done"
            /\ ul'.log = ul.log]_vars

\* The server with shutdown has ended: a datagram was written to the log,
\* then quit was typed, the thread returned, main joined it and closed the
\* file and the socket; a datagram that arrived is left unread in the
\* socket's queue.
C30_Witness ==
    /\ prog = "udplog" /\ m_pc = "exited"
    /\ ul.pc = "done"
    /\ ul.fp_closes = 1 /\ ul.sock_closes = 1
    /\ ul.log /= <<>>
    /\ ul.inbox /= <<>>

\* C31: in the UDP log server with shutdown the check that follows recvfrom
\* decides: with running = 0 the datagram is dropped, the file is left as it
\* is and the thread returns; with running = 1 the datagram goes to the
\* write, which appends its payload to the log file; and once running is 0
\* the receive thread eventually returns.
C31_FlagDecidesWrite ==
    /\ [][(prog = "udplog" /\ ul.pc = "check" /\ ul'.pc /= "check") =>
            IF running = 1
            THEN ul'.pc = "write" /\ ul'.dgram = ul.dgram
            ELSE ul'.pc = "done" /\ ul'.log = ul.log]_vars
    /\ [][(prog = "udplog" /\ ul.pc = "write" /\ ul'.pc /= "write") =>
            ul'.log = ul.log \o ul.dgram]_vars
    /\ (prog = "udplog" /\ running = 0) ~> (ul.pc = "done")

\* C32: in send_all, with every send returning at most the number of bytes
\* it was asked for, 0 <= sent <= len holds in the loop and after it; a send
\* is attempted only with sent < len; an iteration that does not return adds
\* to sent what send returned, at least 1; so at most len sends are made.
C32_SentBoundedAndGrowing ==
    /\ [](prog = "send_all" =>
            /\ 0 <= sa.sent /\ sa.sent <= sa.len
            /\ Len(sa.calls) <= sa.len
            /\ \A i \in 1..Len(sa.calls) : sa.calls[i].res <= sa.calls[i].cnt
            /\ sa.sent >= Len(SelectSeq(sa.calls, LAMBDA c : c.res > 0)))
    /\ [][(prog = "send_all" /\ sa'.calls /= sa.calls) =>
            /\ sa.pc = "loop" /\ sa.sent < sa.len
            /\ Len(sa'.calls) = Len(sa.calls) + 1
            /\ IF sa'.pc = "loop"
               THEN /\ sa'.sent > sa.sent
                    /\ sa'.sent = sa.sent + Last(sa'.calls).res
               ELSE sa'.pc = "done" /\ sa'.sent = sa.sent]_vars

\* A call with len = MaxLen that took as many sends as there are bytes: each
\* send took one byte, and the loop has ended with sent = len.
C32_Witness ==
    /\ prog = "send_all"
    /\ sa.pc = "done" /\ sa.ret = 0
    /\ sa.len = MaxLen /\ sa.sent = MaxLen
    /\ Len(sa.calls) = MaxLen

\* C33: in the two threaded bridges every context block is freed at most
\* once and never read or freed when it is not live: the accept loop holds a
\* live block only between its malloc and the end of that iteration, a live
\* block leaves the loop either freed (accept timeout, accept error, failed
\* pthread_create) or handed to the new client_thread, and the thread frees
\* it in its first step and never has it again.
C33_ContextFreedOnce ==
    /\ [](prog \in {"thread", "simple"} =>
            /\ heap.a \in {"none", "live", "freed"}
            /\ heap.a = "live" <=>
                  \/ a_pc = "spawn"
                  \/ prog = "simple" /\ a_pc = "accept"
            /\ \A c \in Clients :
                  /\ heap.c[c] \in {"none", "live", "freed"}
                  /\ heap.c[c] = "none" <=> c_pc[c] = "idle"
                  /\ heap.c[c] = "live" <=> c_pc[c] = "start")
    /\ [][(prog \in {"thread", "simple"}) =>
          ( /\ (heap.a = "live" /\ heap'.a /= "live") =>
                  \/ heap'.a = "freed" /\ heap'.c = heap.c
                  \/ /\ heap'.a = "none"
                     /\ heap'.c = [heap.c EXCEPT ![a_fd] = "live"]
                     /\ heap.c[a_fd] = "none"
            /\ \A c \in Clients :
                  /\ heap.c[c] = "live" => heap'.c[c] \in {"live", "freed"}
                  /\ heap.c[c] = "freed" => heap'.c[c] = "freed" )]_vars

\* The server with shutdown has started a thread for connection 1, which has
\* freed its block and is in its loop, and an accept has since timed out,
\* its block freed by the accept loop.
C33_Witness ==
    /\ prog = "thread"
    /\ a_pc = "test" /\ heap.a = "freed"
    /\ c_pc[1] = "recv" /\ heap.c[1] = "freed"
    /\ client_closes[1] = 0

\* The number of close calls made on a descriptor or file of the startup
\* code.
ClosesOf(r) ==
    CASE r = "udp" -> udp_closes
      [] r = "epoll" -> epoll_closes
      [] r = "listen" -> listen_closes
      [] r = "sock" -> ul.sock_closes
      [] r = "fp" -> ul.fp_closes

\* C34: when main of the UDP log servers, of the threaded bridge or of the
\* epoll bridge has returned 1 from its startup code, every socket, epoll
\* descriptor and file it had opened has been closed.
C34_FailureExitClosesAll ==
    (m_pc = "exited" /\ su.status = 1) =>
        \A r \in su.opened : ClosesOf(r) >= 1

====
